---- MODULE Spec2Model ----
(***************************************************************************)
(* The resilient transport of the sedori decision engine: the rate-limit   *)
(* primitives of src/common/rate_limit.py (RequestBudget, KeySemaphore,    *)
(* CircuitBreaker) and the retrying call path built on them in             *)
(* AmazonSPAPIClient._request/_send_once and                               *)
(* KeepaAPIClient._request/_send_once.                                     *)
(*                                                                         *)
(* Threads are concurrent invocations sharing the client instances.  Each  *)
(* lock-protected method body of a primitive is one atomic step; every     *)
(* blocking point of a call (semaphore wait, HTTP send, retry backoff) is  *)
(* a position of the thread's program counter.                             *)
(***************************************************************************)
EXTENDS Integers, Sequences, FiniteSets, TLC

\* ---------------------------------------------------------------- bounds
\* RetrySettings.max_attempts of the modelled configuration.
MaxAttempts == 2
\* budget_limit handed to both clients.
BudgetLimit == 3
\* KeySemaphore(max_inflight).
MaxInflight == 1
\* CircuitBreaker(failure_threshold).
FailureThreshold == 2
\* CircuitBreaker(cooldown_seconds), in clock ticks.
Cooldown == 2
\* Last value of the monotonic clock.
MaxTime == 3
\* Number of transport calls started in one behaviour.
MaxCalls == 4

\* ------------------------------------------------------------- constants
Threads == {"t1", "t2"}
Clients == {"spapi", "keepa"}

\* _budget_key: one key per client ("spapi:<marketplace>", "keepa:<domain>:<digest>").
BudgetKey(c) == IF c = "spapi" THEN "spapi:TEST" ELSE "keepa:5:digest"

Keys == {BudgetKey(c) : c \in Clients}

RETRYABLE_STATUS_CODES == {429, 500, 502, 503, 504}

\* CircuitBreaker._opened_at = None
NoTime == -1

\* What one HTTP send can end in: a response (status, whether its body is
\* JSON), or an exception of the requests library.
Statuses == {200, 302, 400, 404, 429, 500, 502, 503, 504}

Outcomes ==
    [kind : {"response"}, status : Statuses, json_ok : {TRUE}]
    \cup [kind : {"response"}, status : {200}, json_ok : {FALSE}]
    \cup [kind : {"Timeout", "ConnectionError", "RequestException"},
          status : {0}, json_ok : {FALSE}]

\* ------------------------------------------------------- result values
ServiceFlags(degraded, cached, circuit_open, reason) ==
    [degraded |-> degraded, cached |-> cached,
     circuit_open |-> circuit_open, reason |-> reason]

NoFlags == ServiceFlags(FALSE, FALSE, FALSE, "-")

\* No call outcome yet.
NoResult == [kind |-> "none", data |-> "-", flags |-> NoFlags, error |-> "-"]

\* return ServiceResult(data=..., flags=...)
ServiceResult(data, flags) ==
    [kind |-> "return", data |-> data, flags |-> flags, error |-> "-"]

\* raise <error>
Raised(error) == [kind |-> "raise", data |-> "-", flags |-> NoFlags, error |-> error]

CircuitOpenResult ==
    ServiceResult("null", ServiceFlags(TRUE, FALSE, TRUE, "circuit_open"))

BudgetExceededResult ==
    ServiceResult("null", ServiceFlags(TRUE, FALSE, FALSE, "budget_exceeded"))

RetryExhaustedResult ==
    ServiceResult("null", ServiceFlags(TRUE, FALSE, FALSE, "retry_exhausted"))

SuccessResult ==
    ServiceResult("response", ServiceFlags(FALSE, FALSE, FALSE, "None"))

\* AmazonSPAPIError / KeepaAPIError
TypedError(c) == IF c = "spapi" THEN "AmazonSPAPIError" ELSE "KeepaAPIError"

\* ------------------------------------------------------- RequestBudget
\* Mutant: the limit test is off by one.
ConsumeOffByOne(cnt, key, limit) ==
    IF cnt[key] > limit
    THEN [ok |-> FALSE, counts |-> cnt]
    ELSE [ok |-> TRUE, counts |-> [cnt EXCEPT ![key] = @ + 1]]

\* Mutant: a consume() that finds the limit reached starts the count anew.
ConsumeStartsAnew(cnt, key, limit) ==
    IF cnt[key] >= limit
    THEN [ok |-> FALSE, counts |-> [cnt EXCEPT ![key] = 0]]
    ELSE [ok |-> TRUE, counts |-> [cnt EXCEPT ![key] = @ + 1]]

\* consume(key, limit) under the budget's lock: [ok, counts].
Consume(cnt, key, limit) ==
    IF cnt[key] >= limit
    THEN [ok |-> FALSE, counts |-> cnt]
    ELSE [ok |-> TRUE, counts |-> [cnt EXCEPT ![key] = @ + 1]]

\* -------------------------------------------------------- KeySemaphore
\* _get_semaphore: the map after the lazy creation of key's semaphore.
GetSemaphore(sems, key) ==
    IF key \in DOMAIN sems THEN sems ELSE sems @@ (key :> MaxInflight)

\* Mutant: acquire never blocks.
CanAcquireAlways(sems, key) == TRUE

\* Semaphore.acquire can return only with a permit left.
CanAcquire(sems, key) == GetSemaphore(sems, key)[key] > 0

SemAcquire(sems, key) == [GetSemaphore(sems, key) EXCEPT ![key] = @ - 1]

SemRelease(sems, key) == [sems EXCEPT ![key] = @ + 1]

\* Mutant: no try/finally, the permit is given back only when the send
\* returned a response.
ReleasesOnReturnOnly(o) == o.kind = "response"

\* The finally clause of acquire(): the permit is given back however the
\* with-block was left.
ReleasesOnExit(o) == TRUE

\* ------------------------------------------------------ CircuitBreaker
ClosedBreaker == [failures |-> 0, opened_at |-> NoTime]

\* Mutant: a denied allow() counts as one more failure.
AllowCountsDenial(b, tnow) ==
    IF b.opened_at = NoTime
    THEN [ok |-> TRUE, b |-> b]
    ELSE IF tnow - b.opened_at >= Cooldown
         THEN [ok |-> TRUE, b |-> [failures |-> 0, opened_at |-> NoTime]]
         ELSE [ok |-> FALSE, b |-> [b EXCEPT !.failures = @ + 1]]

\* Mutant: after the cooldown allow() reopens the gate but keeps the
\* failure count (a half-open breaker that one failure opens again).
AllowKeepsFailures(b, tnow) ==
    IF b.opened_at = NoTime
    THEN [ok |-> TRUE, b |-> b]
    ELSE IF tnow - b.opened_at >= Cooldown
         THEN [ok |-> TRUE, b |-> [failures |-> b.failures, opened_at |-> NoTime]]
         ELSE [ok |-> FALSE, b |-> b]

\* allow(): [ok, b]; ok = FALSE is CircuitOpen raised.
Allow(b, tnow) ==
    IF b.opened_at = NoTime
    THEN [ok |-> TRUE, b |-> b]
    ELSE IF tnow - b.opened_at >= Cooldown
         THEN [ok |-> TRUE, b |-> [failures |-> 0, opened_at |-> NoTime]]
         ELSE [ok |-> FALSE, b |-> b]

\* Mutant: a success closes the breaker but keeps the failure count.
RecordSuccessKeepsFailures(b) == [failures |-> b.failures, opened_at |-> NoTime]

\* Mutant: a success only resets the failure counter; an open breaker
\* stays open.
RecordSuccessCounterOnly(b) == [failures |-> 0, opened_at |-> b.opened_at]

\* record_success() under the breaker's lock.
RecordSuccess(b) == [failures |-> 0, opened_at |-> NoTime]

\* Mutant: the breaker opens one failure late.
RecordFailureOpensLate(b, tnow) ==
    LET f == b.failures + 1
    IN [failures |-> f,
        opened_at |-> IF f > FailureThreshold THEN tnow ELSE b.opened_at]

\* record_failure() under the breaker's lock.
RecordFailure(b, tnow) ==
    LET f == b.failures + 1
    IN [failures |-> f,
        opened_at |-> IF f >= FailureThreshold THEN tnow ELSE b.opened_at]

\* ---------------------------------------------------------- _send_once
\* Mutant: only server errors are errors; a client error (4xx) is taken
\* for a success.
SendOnceOutcomeServerErrorsOnly(c, o) ==
    IF o.kind \in {"Timeout", "ConnectionError"} THEN "retryable"
    ELSE IF o.kind = "RequestException" THEN "fatal"
    ELSE IF o.status \in RETRYABLE_STATUS_CODES THEN "retryable"
    ELSE IF o.status >= 500 THEN "fatal"
    ELSE IF c = "keepa" /\ ~o.json_ok THEN "fatal"
    ELSE "success"

\* How one attempt ends once the send has ended in outcome o:
\* "retryable" (Retryable*Error raised), "fatal" (the typed error raised)
\* or "success" (the response or payload returned).
SendOnceOutcome(c, o) ==
    IF o.kind \in {"Timeout", "ConnectionError"} THEN "retryable"
    ELSE IF o.kind = "RequestException" THEN "fatal"
    ELSE IF o.status \in RETRYABLE_STATUS_CODES THEN "retryable"
    ELSE IF o.status >= 400 THEN "fatal"
    ELSE IF c = "keepa" /\ ~o.json_ok THEN "fatal"
    ELSE "success"

\* Mutant: the retry loop has no stop condition.
StopAfterAttemptNever(n) == FALSE

\* Mutant: one attempt too many.
StopAfterAttemptOffByOne(n) == n > MaxAttempts

\* tenacity stop_after_attempt(max_attempts), attempts counted from 1.
StopAfterAttempt(n) == n >= MaxAttempts

\* What _request does when the retry loop's attempt n ended as cls:
\* "again" (sleep, then the next attempt) or the handler that ends the call.
AfterAttempt(cls, n) ==
    IF cls = "success" THEN "success"
    ELSE IF cls = "fatal" THEN "fatal"
    ELSE IF StopAfterAttempt(n) THEN "exhausted"
    ELSE "again"

\* Mutant: every failed attempt is recorded, also between attempts.
BreakerRecordEveryAttempt(how) ==
    CASE how = "success" -> "success"
      [] how = "exhausted" -> "failure"
      [] how = "fatal" -> "failure"
      [] how = "again" -> "failure"
      [] OTHER -> "none"

\* Mutant: an exceeded budget is recorded as a failure.
BreakerRecordBudgetFailure(how) ==
    CASE how = "success" -> "success"
      [] how = "exhausted" -> "failure"
      [] how = "fatal" -> "failure"
      [] how = "budget" -> "failure"
      [] OTHER -> "none"

\* The record made on the breaker by the handler that ends the call.
BreakerRecord(how) ==
    CASE how = "success" -> "success"
      [] how = "exhausted" -> "failure"
      [] how = "fatal" -> "failure"
      [] how = "budget" -> "none"
      [] OTHER -> "none"

\* What the handler hands to the caller.
CallResult(c, how) ==
    CASE how = "success" -> SuccessResult
      [] how = "exhausted" -> RetryExhaustedResult
      [] how = "fatal" -> Raised(TypedError(c))
      [] how = "budget" -> BudgetExceededResult
      [] OTHER -> NoResult

\* get_competitive_pricing: a transport outcome without data becomes an
\* empty offer list under the same flags; a response is parsed into offers.
GetCompetitivePricing(r) ==
    IF r.kind # "return" THEN r
    ELSE IF r.data = "null" THEN ServiceResult("[]", r.flags)
    ELSE ServiceResult("offers", r.flags)

\* ----------------------------------------------------------------- state
VARIABLES
    counts,       \* RequestBudget._counts: key -> consumed
    semaphores,   \* KeySemaphore._semaphores: key -> permits left
    breaker,      \* client -> [failures, opened_at]
    now,          \* time.monotonic()
    pc,           \* thread -> position in its call
    client,       \* thread -> the client its call goes through
    attempt,      \* thread -> tenacity attempt number of the call
    last,         \* thread -> how the attempt that just ended, ended
    result,       \* thread -> what the call handed back
    calls,        \* calls started so far
    trace,        \* thread -> what the current call has done so far
    outcome,      \* thread -> how the send that just ended, ended
    consumeCalls, \* key -> consume() calls made so far
    consumeOk,    \* key -> consume() calls that returned
    streak,       \* client -> failures recorded since the last reset
    lastOpen      \* client -> when a full streak last opened the breaker

\* SellingPartnerAuthenticator (src/services/sp_auth.py) and its callers.
VARIABLES
    wall,         \* time.time(), in seconds
    cached_token, \* SellingPartnerAuthenticator._cached_token
    expires_at,   \* SellingPartnerAuthenticator._expires_at
    apc,          \* thread -> position in get_access_token
    anow,         \* thread -> the local `now` of its get_access_token call
    authAttempt,  \* thread -> tenacity attempt number of its refresh
    token_data,   \* thread -> what its _refresh_token returned
    returned,     \* thread -> what get_access_token handed back
    posts,        \* POSTs made to the token endpoint so far
    authCalls,    \* get_access_token calls started so far
    fromCache,    \* thread -> its call returned at line 44, without refresh
    entryFresh    \* thread -> a fresh token was cached when its call began

\* ScrapeAgent (src/agents/scrape/pipeline.py) and the clients' caches.
VARIABLES
    ppc,               \* position of the agent in run()
    runs,              \* run() invocations started so far
    thresholds,        \* settings.thresholds of the agent
    snapshot_cache,    \* KeepaAPIClient._cache: key -> cached snapshot
    keepa_flags,       \* run(): keepa_flags
    keepa_snapshot,    \* run(): keepa_snapshot
    competitive_flags, \* run(): competitive_flags
    offers,            \* run(): offers, as landed prices
    selling_price,     \* run(): selling_price
    fees_flags,        \* run(): fees_flags
    base_fees,         \* run(): base_fees
    flags_state,       \* run(): flags_state
    steps,             \* fetch steps the run has made, in order
    failed,            \* fetch steps of the run that failed
    raisedError,       \* the error run() raised
    doc,               \* the result document run() returned
    httpRequests,      \* key -> HTTP requests sent by whole transport calls
    snapCalls,         \* get_price_snapshot calls made by other callers
    snapKey,           \* cache key of the last get_price_snapshot call
    snap               \* what the last get_price_snapshot call handed back

netVars == <<counts, semaphores, breaker, now, pc, client, attempt, last, result, calls,
             trace, outcome, consumeCalls, consumeOk, streak, lastOpen>>

authVars == <<wall, cached_token, expires_at, apc, anow, authAttempt, token_data,
              returned, posts, authCalls, fromCache, entryFresh>>

\* The pure computations of the engine, applied to given arguments.
VARIABLES
    args,              \* the arguments of the computation
    ret                \* what it returned or raised

evalVars == <<args, ret>>

\* Callers of one breaker, whatever their number.
VARIABLES
    admitted           \* client -> calls allow() admitted that have not ended

breakerVars == <<admitted>>

pipeVars == <<ppc, runs, thresholds, snapshot_cache, keepa_flags, keepa_snapshot,
              competitive_flags, offers, selling_price, fees_flags, base_fees,
              flags_state, steps, failed, raisedError, doc, httpRequests, snapCalls,
              snapKey, snap>>

vars == <<netVars, authVars, pipeVars, evalVars, breakerVars>>

\* A step of the transport leaves the authenticator alone.
NetFrame == UNCHANGED <<authVars, pipeVars, evalVars, breakerVars>>

NoOutcome == [kind |-> "-", status |-> 0, json_ok |-> FALSE]

\* The events of one call, in order: "allow" ("allow_reset" when allow()
\* found the cooldown elapsed and closed the breaker), "denied", "token_error",
\* "consume", "budget_exceeded", "acquire", "send", "release", the way each
\* attempt ended ("retryable", "fatal", "success"), "backoff",
\* "record_failure", "record_success".
NoTrace == <<>>

\* How often event e occurs in the event sequence s.
Count(s, e) == Cardinality({i \in DOMAIN s : s[i] = e})

InitNet ==
    /\ counts = [k \in Keys |-> 0]
    /\ semaphores = <<>>
    /\ breaker = [c \in Clients |-> ClosedBreaker]
    /\ now = 0
    /\ pc = [t \in Threads |-> "idle"]
    /\ client = [t \in Threads |-> "-"]
    /\ attempt = [t \in Threads |-> 0]
    /\ last = [t \in Threads |-> "-"]
    /\ result = [t \in Threads |-> NoResult]
    /\ calls = 0
    /\ trace = [t \in Threads |-> NoTrace]
    /\ outcome = [t \in Threads |-> NoOutcome]
    /\ consumeCalls = [k \in Keys |-> 0]
    /\ consumeOk = [k \in Keys |-> 0]
    /\ streak = [c \in Clients |-> 0]
    /\ lastOpen = [c \in Clients |-> NoTime]

\* --------------------------------------------------------------- actions
\* The monotonic clock advances.  The clock is read only by the breaker
\* (allow compares it with opened_at, record_failure stores it), so only
\* the time that passes while some breaker is open can be observed.
Tick ==
    /\ now < MaxTime
    /\ \E c \in Clients : breaker[c].opened_at # NoTime
    /\ now' = now + 1
    /\ UNCHANGED <<counts, semaphores, breaker, pc, client, attempt, last, result,
                   calls, trace, outcome, consumeCalls, consumeOk, streak,
                   lastOpen>>
    /\ NetFrame

\* The access token provider of the marketplace client returns a token or
\* raises TokenAcquisitionError; the price-history client has none.
TokenProviderOutcomes(c) == IF c = "spapi" THEN {"token", "raise"} ELSE {"token"}

\* Mutant: the access token is fetched before allow() is asked.
CallTokenFirst(t) ==
    /\ pc[t] = "idle"
    /\ calls < MaxCalls
    /\ calls' = calls + 1
    /\ \E c \in Clients : \E tok \in TokenProviderOutcomes(c) :
       LET a == Allow(breaker[c], now)
           reset == a.ok /\ breaker[c].opened_at # NoTime
       IN /\ client' = [client EXCEPT ![t] = c]
          /\ IF tok = "raise"
             THEN /\ pc' = [pc EXCEPT ![t] = "done"]
                  /\ result' = [result EXCEPT ![t] = Raised("TokenAcquisitionError")]
                  /\ trace' = [trace EXCEPT ![t] = <<"token_error">>]
                  /\ UNCHANGED <<attempt, breaker, streak, lastOpen>>
             ELSE /\ breaker' = [breaker EXCEPT ![c] = a.b]
                  /\ streak' = [streak EXCEPT ![c] = IF reset THEN 0 ELSE @]
                  /\ lastOpen' = [lastOpen EXCEPT ![c] = IF reset THEN NoTime ELSE @]
                  /\ IF ~a.ok
                     THEN /\ pc' = [pc EXCEPT ![t] = "done"]
                          /\ result' = [result EXCEPT ![t] = CircuitOpenResult]
                          /\ trace' = [trace EXCEPT ![t] = <<"denied">>]
                          /\ UNCHANGED attempt
                     ELSE /\ pc' = [pc EXCEPT ![t] = "attempt"]
                          /\ attempt' = [attempt EXCEPT ![t] = 1]
                          /\ trace' = [trace EXCEPT ![t] =
                                         <<IF reset THEN "allow_reset" ELSE "allow">>]
                          /\ UNCHANGED result
    /\ UNCHANGED <<counts, semaphores, now, last, outcome, consumeCalls, consumeOk>>
    /\ NetFrame

\* _request up to the retry loop: allow(), then (marketplace client) the
\* access token.
Call(t) ==
    /\ pc[t] = "idle"
    /\ calls < MaxCalls
    /\ calls' = calls + 1
    /\ \E c \in Clients :
       LET a == Allow(breaker[c], now)
           reset == a.ok /\ breaker[c].opened_at # NoTime
       IN /\ client' = [client EXCEPT ![t] = c]
          /\ breaker' = [breaker EXCEPT ![c] = a.b]
          /\ streak' = [streak EXCEPT ![c] = IF reset THEN 0 ELSE @]
          /\ lastOpen' = [lastOpen EXCEPT ![c] = IF reset THEN NoTime ELSE @]
          /\ IF ~a.ok
             THEN /\ pc' = [pc EXCEPT ![t] = "done"]
                  /\ result' = [result EXCEPT ![t] = CircuitOpenResult]
                  /\ trace' = [trace EXCEPT ![t] = <<"denied">>]
                  /\ UNCHANGED attempt
             ELSE \E tok \in TokenProviderOutcomes(c) :
                    IF tok = "token"
                    THEN /\ pc' = [pc EXCEPT ![t] = "attempt"]
                         /\ attempt' = [attempt EXCEPT ![t] = 1]
                         /\ trace' = [trace EXCEPT ![t] =
                                        <<IF reset THEN "allow_reset" ELSE "allow">>]
                         /\ UNCHANGED result
                    ELSE /\ pc' = [pc EXCEPT ![t] = "done"]
                         /\ result' = [result EXCEPT ![t] = Raised("TokenAcquisitionError")]
                         /\ trace' = [trace EXCEPT ![t] =
                                        <<IF reset THEN "allow_reset" ELSE "allow",
                                          "token_error">>]
                         /\ UNCHANGED attempt
    /\ UNCHANGED <<counts, semaphores, now, last, outcome, consumeCalls, consumeOk>>
    /\ NetFrame

\* _request after an attempt ended as `how`, with tr the call's events so
\* far: the retry loop goes on (sleep), or the handler for the way the loop
\* ended runs: breaker record, then return or raise.
LoopStep(t, how, tr) ==
    LET c == client[t]
        rec == BreakerRecord(how)
        b == IF rec = "success" THEN RecordSuccess(breaker[c])
             ELSE IF rec = "failure" THEN RecordFailure(breaker[c], now)
             ELSE breaker[c]
        s == IF rec = "success" THEN 0
             ELSE IF rec = "failure" THEN streak[c] + 1
             ELSE streak[c]
        ev == IF rec = "none" THEN <<>> ELSE <<"record_" \o rec>>
    IN /\ breaker' = [breaker EXCEPT ![c] = b]
       /\ streak' = [streak EXCEPT ![c] = s]
       /\ lastOpen' = [lastOpen EXCEPT ![c] =
                         IF rec = "failure" /\ s >= FailureThreshold THEN now
                         ELSE @]
       /\ IF how = "again"
          THEN /\ pc' = [pc EXCEPT ![t] = "backoff"]
               /\ attempt' = [attempt EXCEPT ![t] = @ + 1]
               /\ trace' = [trace EXCEPT ![t] = tr \o ev \o <<"backoff">>]
               /\ UNCHANGED result
          ELSE /\ pc' = [pc EXCEPT ![t] = "done"]
               /\ result' = [result EXCEPT ![t] = CallResult(c, how)]
               /\ trace' = [trace EXCEPT ![t] = tr \o ev]
               /\ UNCHANGED attempt

\* _send_once, first line: budget.consume(request_key, budget_limit), at the
\* start of the first attempt or when the backoff sleep has ended. A
\* BudgetExceeded leaves the retry loop and _request's handler returns the
\* degraded result; the handler touches nothing shared, so it is part of
\* this step.
ConsumeBudget(t) ==
    /\ pc[t] \in {"attempt", "backoff"}
    /\ LET k == BudgetKey(client[t])
           r == Consume(counts, k, BudgetLimit)
       IN /\ counts' = r.counts
          /\ consumeCalls' = [consumeCalls EXCEPT ![k] = @ + 1]
          /\ consumeOk' = [consumeOk EXCEPT ![k] = IF r.ok THEN @ + 1 ELSE @]
          /\ IF r.ok
             THEN /\ pc' = [pc EXCEPT ![t] = "acquire"]
                  /\ trace' = [trace EXCEPT ![t] = Append(@, "consume")]
                  /\ UNCHANGED <<breaker, attempt, result, streak, lastOpen>>
             ELSE LoopStep(t, "budget", Append(trace[t], "budget_exceeded"))
    /\ UNCHANGED <<semaphores, now, client, last, calls, outcome>>
    /\ NetFrame

\* with self._semaphore.acquire(request_key): the permit is taken and the
\* HTTP send starts.
AcquireAndSend(t) ==
    /\ pc[t] = "acquire"
    /\ LET k == BudgetKey(client[t])
       IN /\ CanAcquire(semaphores, k)
          /\ semaphores' = SemAcquire(semaphores, k)
    /\ pc' = [pc EXCEPT ![t] = "send"]
    /\ trace' = [trace EXCEPT ![t] = @ \o <<"acquire", "send">>]
    /\ UNCHANGED <<counts, breaker, now, client, attempt, last, result, calls,
                   outcome, consumeCalls, consumeOk, streak, lastOpen>>
    /\ NetFrame

\* The send ends in outcome o: the with-block is left, _send_once
\* classifies the outcome and tenacity decides whether the loop goes on.
\* Going on (the backoff sleep) touches nothing shared and is part of this
\* step; a loop that ends leaves its handler, which records on the breaker,
\* to a step of its own.
SendReturns(t, o) ==
    /\ pc[t] = "send"
    /\ LET c == client[t]
           k == BudgetKey(c)
           cls == SendOnceOutcome(c, o)
           how == AfterAttempt(cls, attempt[t])
           tr == trace[t] \o (IF ReleasesOnExit(o) THEN <<"release">> ELSE <<>>)
                          \o <<cls>>
       IN /\ semaphores' = IF ReleasesOnExit(o) THEN SemRelease(semaphores, k)
                           ELSE semaphores
          /\ IF how = "again"
             THEN /\ LoopStep(t, how, tr)
                  /\ UNCHANGED <<last, outcome>>
             ELSE /\ pc' = [pc EXCEPT ![t] = "handle"]
                  /\ last' = [last EXCEPT ![t] = how]
                  /\ outcome' = [outcome EXCEPT ![t] = o]
                  /\ trace' = [trace EXCEPT ![t] = tr]
                  /\ UNCHANGED <<breaker, attempt, result, streak, lastOpen>>
    /\ UNCHANGED <<counts, now, client, calls, consumeCalls, consumeOk>>
    /\ NetFrame

\* _request's handler for the way the retry loop ended after a send:
\* record_success or record_failure, then return or raise.
Handle(t) ==
    /\ pc[t] = "handle"
    /\ LoopStep(t, last[t], trace[t])
    /\ last' = [last EXCEPT ![t] = "-"]
    /\ outcome' = [outcome EXCEPT ![t] = NoOutcome]
    /\ UNCHANGED <<counts, semaphores, now, client, calls, consumeCalls, consumeOk>>
    /\ NetFrame

\* The caller has taken the call's result; the thread may call again.
Return(t) ==
    /\ pc[t] = "done"
    /\ pc' = [pc EXCEPT ![t] = "idle"]
    /\ result' = [result EXCEPT ![t] = NoResult]
    /\ trace' = [trace EXCEPT ![t] = NoTrace]
    /\ attempt' = [attempt EXCEPT ![t] = 0]
    /\ client' = [client EXCEPT ![t] = "-"]
    /\ UNCHANGED <<counts, semaphores, breaker, now, last, calls, outcome,
                   consumeCalls, consumeOk, streak, lastOpen>>
    /\ NetFrame

\* ------------------------------------------------ the token cache (LWA)
\* get_access_token: the safety margin before expiry, in seconds.
TokenSkew == 60
\* token_data.get("expires_in", 3600)
DefaultExpiresIn == 3600

\* The wall clock advances by ClockStep seconds at a time, up to MaxWall.
ClockStep == 20
MaxWall == 40
\* POSTs to the token endpoint in one behaviour.
MaxPosts == 3
\* get_access_token calls started in one behaviour.
MaxAuthCalls == 3

\* self._cached_token = None
NoToken == [id |-> 0, expiry |-> 0]

\* The n-th token the endpoint issued; expiry is the expires_at that the
\* refresh which obtained it computes for it (now + expires_in).
Token(n, expiry) == [id |-> n, expiry |-> expiry]

\* A token response without the expires_in field.
Absent == -1

\* The expires_in values of a token response.
ExpiresInValues == {Absent, 30, 100}

ExpiresIn(v) == IF v = Absent THEN DefaultExpiresIn ELSE v

\* What get_access_token hands back: a token, or TokenAcquisitionError.
NoReturn == [kind |-> "none", token |-> NoToken]
ReturnedToken(tok) == [kind |-> "return", token |-> tok]
TokenAcquisitionError == [kind |-> "raise", token |-> NoToken]

NoTokenData == [access_token |-> NoToken, expires_in |-> 0]

\* _refresh_token: what one POST to the token endpoint ends in.
RefreshTokenOutcome(o) ==
    IF o.kind \in {"Timeout", "ConnectionError"} THEN "retryable"
    ELSE IF o.kind = "RequestException" THEN "fatal"
    ELSE IF o.status \in RETRYABLE_STATUS_CODES THEN "retryable"
    ELSE IF o.status >= 400 THEN "fatal"
    ELSE IF ~o.json_ok THEN "fatal"
    ELSE "token"

\* get_access_token, line 43, right operand.
Unexpired(exp, tnow) == tnow < exp - TokenSkew

\* get_access_token, line 43: the cached token may be used.
Fresh(tok, exp, tnow) == tok # NoToken /\ Unexpired(exp, tnow)

\* A step of the authenticator leaves the transport alone.
AuthFrame == UNCHANGED <<netVars, pipeVars, evalVars, breakerVars>>

InitAuth ==
    /\ wall = 0
    /\ cached_token = NoToken
    /\ expires_at = 0
    /\ apc = [t \in Threads |-> "idle"]
    /\ anow = [t \in Threads |-> 0]
    /\ authAttempt = [t \in Threads |-> 0]
    /\ token_data = [t \in Threads |-> NoTokenData]
    /\ returned = [t \in Threads |-> NoReturn]
    /\ posts = 0
    /\ authCalls = 0
    /\ fromCache = [t \in Threads |-> FALSE]
    /\ entryFresh = [t \in Threads |-> FALSE]

\* time.time() advances.
AuthTick ==
    /\ wall + ClockStep <= MaxWall
    /\ wall' = wall + ClockStep
    /\ UNCHANGED <<cached_token, expires_at, apc, anow, authAttempt, token_data,
                   returned, posts, authCalls, fromCache, entryFresh>>
    /\ AuthFrame

\* get_access_token, line 42: now = time.time().
GetAccessToken(t) ==
    /\ apc[t] = "idle"
    /\ authCalls < MaxAuthCalls
    /\ authCalls' = authCalls + 1
    /\ anow' = [anow EXCEPT ![t] = wall]
    /\ entryFresh' = [entryFresh EXCEPT ![t] = Fresh(cached_token, expires_at, wall)]
    /\ apc' = [apc EXCEPT ![t] = "read_token"]
    /\ UNCHANGED <<wall, cached_token, expires_at, authAttempt, token_data, returned,
                   posts, fromCache>>
    /\ AuthFrame

\* Line 43, left operand: self._cached_token is read.  No lock is held, so
\* the reads and writes of the two fields interleave with other threads'.
ReadCachedToken(t) ==
    /\ apc[t] = "read_token"
    /\ IF cached_token # NoToken
       THEN /\ apc' = [apc EXCEPT ![t] = "read_expiry"]
            /\ UNCHANGED authAttempt
       ELSE /\ apc' = [apc EXCEPT ![t] = "post"]
            /\ authAttempt' = [authAttempt EXCEPT ![t] = 1]
    /\ UNCHANGED <<wall, cached_token, expires_at, anow, token_data, returned, posts,
                   authCalls, fromCache, entryFresh>>
    /\ AuthFrame

\* Line 43, right operand: now < self._expires_at - 60.
ReadExpiresAt(t) ==
    /\ apc[t] = "read_expiry"
    /\ IF Unexpired(expires_at, anow[t])
       THEN /\ apc' = [apc EXCEPT ![t] = "return_cached"]
            /\ UNCHANGED authAttempt
       ELSE /\ apc' = [apc EXCEPT ![t] = "post"]
            /\ authAttempt' = [authAttempt EXCEPT ![t] = 1]
    /\ UNCHANGED <<wall, cached_token, expires_at, anow, token_data, returned, posts,
                   authCalls, fromCache, entryFresh>>
    /\ AuthFrame

\* Line 44: return self._cached_token.
ReturnCached(t) ==
    /\ apc[t] = "return_cached"
    /\ returned' = [returned EXCEPT ![t] = ReturnedToken(cached_token)]
    /\ fromCache' = [fromCache EXCEPT ![t] = TRUE]
    /\ apc' = [apc EXCEPT ![t] = "done"]
    /\ UNCHANGED <<wall, cached_token, expires_at, anow, authAttempt, token_data,
                   posts, authCalls, entryFresh>>
    /\ AuthFrame

\* Mutant: the response of a refresh that failed is kept as the token.
PostTokenStoresFailure(t, o, e) ==
    /\ apc[t] = "post"
    /\ posts < MaxPosts
    /\ posts' = posts + 1
    /\ LET cls == RefreshTokenOutcome(o)
       IN IF cls = "token"
          THEN /\ token_data' = [token_data EXCEPT ![t] =
                                   [access_token |-> Token(posts + 1, anow[t] + ExpiresIn(e)),
                                    expires_in |-> ExpiresIn(e)]]
               /\ apc' = [apc EXCEPT ![t] = "store_token"]
               /\ UNCHANGED <<authAttempt, returned, cached_token>>
          ELSE IF cls = "retryable" /\ ~StopAfterAttempt(authAttempt[t])
          THEN /\ authAttempt' = [authAttempt EXCEPT ![t] = @ + 1]
               /\ UNCHANGED <<apc, token_data, returned, cached_token>>
          ELSE /\ apc' = [apc EXCEPT ![t] = "done"]
               /\ returned' = [returned EXCEPT ![t] = TokenAcquisitionError]
               /\ cached_token' = Token(posts + 1, anow[t])
               /\ UNCHANGED <<authAttempt, token_data>>
    /\ UNCHANGED <<wall, expires_at, anow, authCalls, fromCache, entryFresh>>
    /\ AuthFrame

\* One attempt of retryer.call(self._refresh_token): the POST ends in
\* outcome o.  A token response carries a new token and expires_in e.
PostToken(t, o, e) ==
    /\ apc[t] = "post"
    /\ posts < MaxPosts
    /\ posts' = posts + 1
    /\ LET cls == RefreshTokenOutcome(o)
       IN IF cls = "token"
          THEN /\ token_data' = [token_data EXCEPT ![t] =
                                   [access_token |-> Token(posts + 1, anow[t] + ExpiresIn(e)),
                                    expires_in |-> ExpiresIn(e)]]
               /\ apc' = [apc EXCEPT ![t] = "store_token"]
               /\ UNCHANGED <<authAttempt, returned>>
          ELSE IF cls = "retryable" /\ ~StopAfterAttempt(authAttempt[t])
          THEN /\ authAttempt' = [authAttempt EXCEPT ![t] = @ + 1]
               /\ UNCHANGED <<apc, token_data, returned>>
          ELSE /\ apc' = [apc EXCEPT ![t] = "done"]
               /\ returned' = [returned EXCEPT ![t] = TokenAcquisitionError]
               /\ UNCHANGED <<authAttempt, token_data>>
    /\ UNCHANGED <<wall, cached_token, expires_at, anow, authCalls, fromCache,
                   entryFresh>>
    /\ AuthFrame

\* Line 63: self._cached_token = token_data["access_token"].
StoreToken(t) ==
    /\ apc[t] = "store_token"
    /\ cached_token' = token_data[t].access_token
    /\ apc' = [apc EXCEPT ![t] = "store_expiry"]
    /\ UNCHANGED <<wall, expires_at, anow, authAttempt, token_data, returned, posts,
                   authCalls, fromCache, entryFresh>>
    /\ AuthFrame

\* Line 64: self._expires_at = now + expires_in.
StoreExpiry(t) ==
    /\ apc[t] = "store_expiry"
    /\ expires_at' = anow[t] + token_data[t].expires_in
    /\ apc' = [apc EXCEPT ![t] = "return_new"]
    /\ UNCHANGED <<wall, cached_token, anow, authAttempt, token_data, returned, posts,
                   authCalls, fromCache, entryFresh>>
    /\ AuthFrame

\* Line 65: return self._cached_token.
ReturnNew(t) ==
    /\ apc[t] = "return_new"
    /\ returned' = [returned EXCEPT ![t] = ReturnedToken(cached_token)]
    /\ apc' = [apc EXCEPT ![t] = "done"]
    /\ UNCHANGED <<wall, cached_token, expires_at, anow, authAttempt, token_data,
                   posts, authCalls, fromCache, entryFresh>>
    /\ AuthFrame

\* The caller has taken the token or the error; the thread may call again.
AuthReturn(t) ==
    /\ apc[t] = "done"
    /\ apc' = [apc EXCEPT ![t] = "idle"]
    /\ returned' = [returned EXCEPT ![t] = NoReturn]
    /\ fromCache' = [fromCache EXCEPT ![t] = FALSE]
    /\ entryFresh' = [entryFresh EXCEPT ![t] = FALSE]
    /\ token_data' = [token_data EXCEPT ![t] = NoTokenData]
    /\ authAttempt' = [authAttempt EXCEPT ![t] = 0]
    /\ anow' = [anow EXCEPT ![t] = 0]
    /\ UNCHANGED <<wall, cached_token, expires_at, posts, authCalls>>
    /\ AuthFrame

NextAuth ==
    \/ AuthTick
    \/ \E t \in Threads : GetAccessToken(t)
    \/ \E t \in Threads : ReadCachedToken(t)
    \/ \E t \in Threads : ReadExpiresAt(t)
    \/ \E t \in Threads : ReturnCached(t)
    \/ \E t \in Threads : \E o \in Outcomes : \E e \in ExpiresInValues : PostToken(t, o, e)
    \/ \E t \in Threads : StoreToken(t)
    \/ \E t \in Threads : StoreExpiry(t)
    \/ \E t \in Threads : ReturnNew(t)
    \/ \E t \in Threads : AuthReturn(t)

\* ------------------------------------------------- the decision pipeline
\* ScrapeAgent.run invocations of one agent, one after the other, on the
\* clients and primitives of the agent.  A fetch step (one client operation
\* with its whole transport call) is one step.

\* ScrapeAgent.run invocations in one behaviour.
MaxRuns == 2
\* get_price_snapshot calls of other callers in one behaviour.
MaxSnapshotCalls == 4

\* An absent value (None) is the empty sequence, a present one a sequence
\* of length one.
None == <<>>
Some(x) == <<x>>

\* KeepaPriceSnapshot.sales_rank = None
NoRank == -1
\* ThresholdSettings.max_rank = None
NoMaxRank == -1

\* `rounding` units per money amount of the calculation: amounts are kept
\* as integers of 1/10000 of the rounding quantum, which holds
\* price * bps / 10000 and price * return_rate exactly.
Scale == 10000

\* The product identifiers asked for.
Identifiers == {"B00A", "B00B"}

\* The product the agent's runs are about.
RunIdentifiers == {"B00A"}

\* _cache_key: "<identifier>:<domain>".
CacheKey(id) == id

\* settings.thresholds before an agent is built: ThresholdSettings().
DefaultThresholds == [min_profit |-> 0, min_roi |-> 0, max_rank |-> NoMaxRank]

\* settings.thresholds of the agent: the defaults, or a configured set
\* (min_profit in rounding units, min_roi in 1/10000).
ThresholdSettings ==
    {DefaultThresholds, [min_profit |-> 2, min_roi |-> 1500, max_rank |-> 100]}

\* settings.money (return_rate in 1/10000).
MoneySettings ==
    [fx_spread_bp |-> 500, return_rate |-> 400, inbound_shipping |-> 1,
     packaging_materials |-> 0, storage_fee_monthly |-> 0]

\* The sends a transport call of the pipeline can meet: a JSON response, a
\* 200 whose body is no JSON, a client error, a retryable status, a timeout.
PipeOutcomes ==
    {o \in Outcomes : \/ o.kind = "Timeout"
                      \/ o.kind = "response" /\ o.status \in {200, 404, 503}}

\* _request and its retry loop as one computation: the attempts from
\* attempt n on, with outs[i] the end of the i-th send.
RECURSIVE Attempts(_, _, _, _)
Attempts(c, cnt, n, outs) ==
    LET r == Consume(cnt, BudgetKey(c), BudgetLimit)
    IN IF ~r.ok
       THEN [how |-> "budget", counts |-> cnt, sends |-> n - 1, consumes |-> n,
             response |-> NoOutcome]
       ELSE LET how == AfterAttempt(SendOnceOutcome(c, outs[n]), n)
            IN IF how = "again"
               THEN Attempts(c, r.counts, n + 1, outs)
               ELSE [how |-> how, counts |-> r.counts, sends |-> n, consumes |-> n,
                     response |-> IF how = "success" THEN outs[n] ELSE NoOutcome]

\* One whole _request call of client c from budget counts cnt and breaker b
\* at time tnow: what it hands back and what it leaves behind.
Request(c, cnt, b, tnow, tok, outs) ==
    LET a == Allow(b, tnow)
    IN IF ~a.ok
       THEN [result |-> CircuitOpenResult, counts |-> cnt, breaker |-> a.b,
             allowed |-> FALSE, record |-> "none",
             sends |-> 0, consumes |-> 0, response |-> NoOutcome]
       ELSE IF tok = "raise"
       THEN [result |-> Raised("TokenAcquisitionError"), counts |-> cnt,
             breaker |-> a.b, allowed |-> TRUE, record |-> "none",
             sends |-> 0, consumes |-> 0, response |-> NoOutcome]
       ELSE LET at == Attempts(c, cnt, 1, outs)
                rec == BreakerRecord(at.how)
            IN [result |-> CallResult(c, at.how),
                counts |-> at.counts,
                breaker |-> IF rec = "success" THEN RecordSuccess(a.b)
                            ELSE IF rec = "failure" THEN RecordFailure(a.b, tnow)
                            ELSE a.b,
                allowed |-> TRUE, record |-> rec,
                sends |-> at.sends, consumes |-> at.consumes,
                response |-> at.response]

\* What a client operation hands to the pipeline: ServiceResult(data, flags)
\* or a raised error.
OpReturn(data, flags) == [kind |-> "return", data |-> data, flags |-> flags, error |-> "-"]
OpRaise(error) == [kind |-> "raise", data |-> None, flags |-> NoFlags, error |-> error]

\* ServiceFlags(): nothing set, reason None.
DefaultFlags == ServiceFlags(FALSE, FALSE, FALSE, "None")

\* KeepaPriceSnapshot: the fields the decision reads.
Snapshot(current, rank) == [current_price |-> current, sales_rank |-> rank]

\* _default_keepa_snapshot()
DefaultKeepaSnapshot == Snapshot(0, NoRank)

\* What the price-history payload comes to: an error payload, a payload
\* without products, or a product with the result of _build_price_summary
\* (price: "ok", "thin" = insufficient window, "none" = no summary) and of
\* _extract_rank (rank, rank_insufficient).
KeepaPayloads ==
    {[error |-> TRUE, products |-> 0, price |-> "none", current |-> 0,
      rank |-> NoRank, rank_insufficient |-> TRUE],
     [error |-> FALSE, products |-> 0, price |-> "none", current |-> 0,
      rank |-> NoRank, rank_insufficient |-> TRUE]}
    \cup [error : {FALSE}, products : {1}, price : {"ok"}, current : {12},
          rank : {50, 500}, rank_insufficient : {FALSE}]
    \cup {[error |-> FALSE, products |-> 1, price |-> "ok", current |-> 12,
           rank |-> NoRank, rank_insufficient |-> TRUE],
          [error |-> FALSE, products |-> 1, price |-> "thin", current |-> 12,
           rank |-> 50, rank_insufficient |-> FALSE],
          [error |-> FALSE, products |-> 1, price |-> "none", current |-> 0,
           rank |-> 50, rank_insufficient |-> FALSE]}

\* keepa_api._merge_flags(primary, secondary)
KeepaMergeFlags(primary, secondary) ==
    ServiceFlags(primary.degraded \/ secondary.degraded,
                 primary.cached \/ secondary.cached,
                 primary.circuit_open \/ secondary.circuit_open,
                 IF secondary.reason # "None" THEN secondary.reason ELSE primary.reason)

\* Mutant: a cache hit hands back the flags a degraded fetch would have.
CacheHitResultKeepsDegraded(snapshot) ==
    OpReturn(Some(snapshot),
             ServiceFlags(snapshot.sales_rank = NoRank, TRUE, FALSE,
                          IF snapshot.sales_rank = NoRank
                          THEN "keepa_rank_insufficient" ELSE "None"))

\* get_price_snapshot on a cache hit.
CacheHitResult(snapshot) ==
    OpReturn(Some(snapshot), ServiceFlags(FALSE, TRUE, FALSE, "None"))

\* Mutant: a payload with an error or without products is handed back as
\* a result without data.
GetPriceSnapshotSwallowsError(cached, req, p) ==
    IF cached # None
    THEN [out |-> CacheHitResult(cached[1]), store |-> FALSE]
    ELSE IF req.result.kind = "raise"
    THEN [out |-> OpRaise(req.result.error), store |-> FALSE]
    ELSE IF req.result.data = "null"
    THEN [out |-> OpReturn(None, req.result.flags), store |-> FALSE]
    ELSE IF p.error \/ p.products = 0
    THEN [out |-> OpReturn(None, req.result.flags), store |-> FALSE]
    ELSE LET price_flags == IF p.price = "ok" THEN DefaultFlags
                            ELSE ServiceFlags(TRUE, FALSE, FALSE, "keepa_insufficient_data")
             flags1 == KeepaMergeFlags(req.result.flags, price_flags)
             flags == IF p.rank_insufficient
                      THEN KeepaMergeFlags(flags1,
                               ServiceFlags(TRUE, FALSE, FALSE, "keepa_rank_insufficient"))
                      ELSE flags1
         IN [out |-> OpReturn(Some(Snapshot(p.current, p.rank)), flags),
             store |-> TRUE]

\* get_price_snapshot: cached is what the cache holds for the key, req the
\* transport call made on a miss, p what its payload comes to.  `store`
\* tells whether the snapshot is put in the cache.
GetPriceSnapshot(cached, req, p) ==
    IF cached # None
    THEN [out |-> CacheHitResult(cached[1]), store |-> FALSE]
    ELSE IF req.result.kind = "raise"
    THEN [out |-> OpRaise(req.result.error), store |-> FALSE]
    ELSE IF req.result.data = "null"
    THEN [out |-> OpReturn(None, req.result.flags), store |-> FALSE]
    ELSE IF p.error \/ p.products = 0
    THEN [out |-> OpRaise("KeepaAPIError"), store |-> FALSE]
    ELSE LET price_flags == IF p.price = "ok" THEN DefaultFlags
                            ELSE ServiceFlags(TRUE, FALSE, FALSE, "keepa_insufficient_data")
             flags1 == KeepaMergeFlags(req.result.flags, price_flags)
             flags == IF p.rank_insufficient
                      THEN KeepaMergeFlags(flags1,
                               ServiceFlags(TRUE, FALSE, FALSE, "keepa_rank_insufficient"))
                      ELSE flags1
         IN [out |-> OpReturn(Some(Snapshot(p.current, p.rank)), flags),
             store |-> TRUE]

\* The offer lists (landed prices) a competitive-pricing payload comes to.
OfferLists == {<<>>, <<12, 9>>}

\* get_competitive_pricing: the transport call made, and the offers its
\* payload comes to.  A body that is no JSON makes outcome.data.json()
\* raise ValueError.
GetCompetitivePricingOffers(req, offerList) ==
    IF req.result.kind = "raise" THEN OpRaise(req.result.error)
    ELSE IF req.result.data = "null" THEN OpReturn(Some(<<>>), req.result.flags)
    ELSE IF ~req.response.json_ok THEN OpRaise("ValueError")
    ELSE OpReturn(Some(offerList), req.result.flags)

\* FeeBreakdown: ten additive components.
FeeBreakdown(referral, closing, fba, inbound, packaging, storage, taxes, fx, returns, other) ==
    [referral_fee |-> referral, closing_fee |-> closing, fba_fee |-> fba,
     inbound_shipping |-> inbound, packaging_materials |-> packaging,
     storage_fee |-> storage, taxes |-> taxes, fx_spread |-> fx,
     returns_cost |-> returns, other_costs |-> other]

\* FeeBreakdown(): every component zero.
ZeroFees == FeeBreakdown(0, 0, 0, 0, 0, 0, 0, 0, 0, 0)

\* FeeBreakdown.total
FeeTotal(f) ==
    f.referral_fee + f.closing_fee + f.fba_fee + f.inbound_shipping
    + f.packaging_materials + f.storage_fee + f.taxes + f.fx_spread
    + f.returns_cost + f.other_costs

\* The narrow breakdowns a fees-estimate payload comes to (ReferralFee,
\* VariableClosingFee, FBAPerUnitFulfillmentFee, FBAShipmentFee, Tax).
FeePayloads ==
    {ZeroFees, FeeBreakdown(1, 0, 0, 1, 0, 0, 1, 0, 0, 0)}

\* get_fees_estimate.
GetFeesEstimate(req, fees) ==
    IF req.result.kind = "raise" THEN OpRaise(req.result.error)
    ELSE IF req.result.data = "null" THEN OpReturn(None, req.result.flags)
    ELSE IF ~req.response.json_ok THEN OpRaise("ValueError")
    ELSE OpReturn(Some(fees), req.result.flags)

\* flags_state at the start of run().
InitialFlagsState ==
    [degraded |-> FALSE, cached |-> FALSE, circuit_open |-> FALSE, reasons |-> <<>>]

\* Mutant: the booleans of the later source replace those of the state.
MergeFlagsLatestWins(state, flags) ==
    [degraded |-> flags.degraded,
     cached |-> flags.cached,
     circuit_open |-> flags.circuit_open,
     reasons |-> IF flags.reason # "None" THEN Append(state.reasons, flags.reason)
                 ELSE state.reasons]

\* pipeline._merge_flags(state, flags)
MergeFlags(state, flags) ==
    [degraded |-> state.degraded \/ flags.degraded,
     cached |-> state.cached \/ flags.cached,
     circuit_open |-> state.circuit_open \/ flags.circuit_open,
     reasons |-> IF flags.reason # "None" THEN Append(state.reasons, flags.reason)
                 ELSE state.reasons]

\* Mutant: the keepa failure is reported under a reason outside the
\* vocabulary.
KeepaErrorFlagsOtherReason == ServiceFlags(TRUE, FALSE, FALSE, "keepa_failed")

\* run(), the except branches of the three fetch steps.
KeepaErrorFlags == ServiceFlags(TRUE, FALSE, FALSE, "keepa_error")
PricingErrorFlags == ServiceFlags(TRUE, FALSE, FALSE, "spapi_pricing_error")
FeeErrorFlags == ServiceFlags(TRUE, FALSE, FALSE, "spapi_fee_error")

\* The errors each fetch step of run() catches.
Caught(step) ==
    IF step = "keepa" THEN {"KeepaAPIError"}
    ELSE {"AmazonSPAPIError", "TokenAcquisitionError"}

\* min(offers, key=landed_price).landed_price
MinLanded(offs) ==
    CHOOSE m \in {offs[i] : i \in DOMAIN offs} :
        \A i \in DOMAIN offs : m <= offs[i]

\* Mutant: the offers are looked at before the target price.
DetermineSellingPriceOffersFirst(target, offs, snapshot) ==
    IF offs # <<>> THEN MinLanded(offs)
    ELSE IF target # None /\ target[1] > 0 THEN target[1]
    ELSE IF snapshot.current_price > 0 THEN snapshot.current_price
    ELSE 0

\* _determine_selling_price; target is None or a price.
DetermineSellingPrice(target, offs, snapshot) ==
    IF target # None /\ target[1] # 0 /\ target[1] > 0 THEN target[1]
    ELSE IF offs # <<>> THEN MinLanded(offs)
    ELSE IF snapshot.current_price # 0 /\ snapshot.current_price > 0
         THEN snapshot.current_price
    ELSE 0

\* Decimal.quantize(..., ROUND_HALF_UP) of num/den to an integer, den > 0.
RoundHalfUp(num, den) ==
    IF num >= 0 THEN (2 * num + den) \div (2 * den)
    ELSE 0 - ((2 * (0 - num) + den) \div (2 * den))

\* run(), lines 168 to 179: the full breakdown, amounts in 1/Scale.
ComposeFees(base, price, taxes) ==
    FeeBreakdown(base.referral_fee * Scale, base.closing_fee * Scale,
                 base.fba_fee * Scale,
                 MoneySettings.inbound_shipping * Scale,
                 MoneySettings.packaging_materials * Scale,
                 MoneySettings.storage_fee_monthly * Scale,
                 (taxes + base.taxes) * Scale,
                 price * MoneySettings.fx_spread_bp,
                 price * MoneySettings.return_rate,
                 base.other_costs * Scale)

\* 1 / RATIO_QUANTUM: ratios are kept as integers of 1/10000.
RatioScale == 10000

\* quantize_money(value, rounding): value in fine units, `rounding` the
\* fine units in one quantum; the result in quanta.
QuantizeMoney(value, rounding) == RoundHalfUp(value, rounding)

\* num / den in 1/10000, rounded half-up, den > 0; a denominator that is
\* a multiple of RatioScale is reduced first, which keeps the products
\* small and gives the same quotient.
RoundRatio(num, den) ==
    IF den % RatioScale = 0 THEN RoundHalfUp(num, den \div RatioScale)
    ELSE RoundHalfUp(num * RatioScale, den)

\* Mutant: a zero denominator gives the numerator.
QuantizedRatioNoGuard(num, den) ==
    IF den = 0 THEN num
    ELSE IF den > 0 THEN RoundRatio(num, den)
    ELSE RoundRatio(0 - num, 0 - den)

\* quantize_ratio(_safe_divide(num, den)), in 1/10000.
QuantizedRatio(num, den) ==
    IF den = 0 THEN 0
    ELSE IF den > 0 THEN RoundRatio(num, den)
    ELSE RoundRatio(0 - num, 0 - den)

\* Mutant: other_costs is left out of the quantized breakdown.
QuantizeFeesWithoutOtherCosts(f, rounding) ==
    FeeBreakdown(QuantizeMoney(f.referral_fee, rounding),
                 QuantizeMoney(f.closing_fee, rounding),
                 QuantizeMoney(f.fba_fee, rounding),
                 QuantizeMoney(f.inbound_shipping, rounding),
                 QuantizeMoney(f.packaging_materials, rounding),
                 QuantizeMoney(f.storage_fee, rounding),
                 QuantizeMoney(f.taxes, rounding),
                 QuantizeMoney(f.fx_spread, rounding),
                 QuantizeMoney(f.returns_cost, rounding),
                 0)

\* calculate_profit, lines 29 to 40: the breakdown with every component
\* quantized.
QuantizeFees(f, rounding) ==
    FeeBreakdown(QuantizeMoney(f.referral_fee, rounding),
                 QuantizeMoney(f.closing_fee, rounding),
                 QuantizeMoney(f.fba_fee, rounding),
                 QuantizeMoney(f.inbound_shipping, rounding),
                 QuantizeMoney(f.packaging_materials, rounding),
                 QuantizeMoney(f.storage_fee, rounding),
                 QuantizeMoney(f.taxes, rounding),
                 QuantizeMoney(f.fx_spread, rounding),
                 QuantizeMoney(f.returns_cost, rounding),
                 QuantizeMoney(f.other_costs, rounding))

\* calculate_profit(selling_price, purchase_cost, fees, rounding): the
\* arguments in fine units, `rounding` the fine units in one quantum; the
\* money fields of the result in quanta, the ratios in 1/10000.
ProfitAnalysis(selling, purchase, fees, rounding) ==
    LET total_cost == purchase + FeeTotal(fees)
        profit == selling - total_cost
    IN [selling_price |-> QuantizeMoney(selling, rounding),
        purchase_cost |-> QuantizeMoney(purchase, rounding),
        fees |-> QuantizeFees(fees, rounding),
        total_cost |-> QuantizeMoney(total_cost, rounding),
        profit |-> QuantizeMoney(profit, rounding),
        roi |-> QuantizedRatio(profit, purchase),
        margin |-> QuantizedRatio(profit, selling)]

\* calculate_profit as run() calls it, the price and the cost in rounding
\* units and the fees in 1/Scale: the fields the decision reads.
CalculateProfit(price, cost, fees) ==
    LET pa == ProfitAnalysis(price * Scale, cost * Scale, fees, Scale)
    IN [profit |-> pa.profit, roi |-> pa.roi]

\* _make_decision, meets_rank.
MeetsRank(th, snapshot) ==
    IF th.max_rank = NoMaxRank THEN TRUE
    ELSE snapshot.sales_rank = NoRank \/ snapshot.sales_rank <= th.max_rank

\* Mutant: degraded inputs do not block a buy (the laxer of the two
\* threshold rules).
MakeDecisionIgnoringDegraded(th, pa, snapshot, offs, flags) ==
    LET meets_profit == pa.profit >= th.min_profit
        meets_roi == pa.roi >= th.min_roi
        meets_rank == MeetsRank(th, snapshot)
        has_offers == offs # <<>>
    IN [is_profitable |-> pa.profit > 0,
        meets_thresholds |-> /\ pa.profit > 0 /\ meets_profit /\ meets_roi
                             /\ meets_rank /\ has_offers,
        reasons |-> (IF meets_profit THEN <<>> ELSE <<"profit_below_threshold">>)
                    \o (IF meets_roi THEN <<>> ELSE <<"roi_below_threshold">>)
                    \o (IF meets_rank THEN <<>> ELSE <<"rank_above_threshold">>)
                    \o (IF has_offers THEN <<>> ELSE <<"no_competitive_offers">>)]

\* _make_decision.
MakeDecision(th, pa, snapshot, offs, flags) ==
    LET is_profitable == pa.profit > 0
        meets_profit == pa.profit >= th.min_profit
        meets_roi == pa.roi >= th.min_roi
        meets_rank == MeetsRank(th, snapshot)
        has_offers == offs # <<>>
    IN [is_profitable |-> is_profitable,
        meets_thresholds |-> /\ is_profitable /\ meets_profit /\ meets_roi
                             /\ meets_rank /\ has_offers /\ ~flags.degraded,
        reasons |-> (IF meets_profit THEN <<>> ELSE <<"profit_below_threshold">>)
                    \o (IF meets_roi THEN <<>> ELSE <<"roi_below_threshold">>)
                    \o (IF meets_rank THEN <<>> ELSE <<"rank_above_threshold">>)
                    \o (IF has_offers THEN <<>> ELSE <<"no_competitive_offers">>)
                    \o (IF flags.degraded THEN <<"degraded_inputs">> ELSE <<>>)]

\* The reason strings the code can produce, in the order Python's string
\* comparison puts them.
ReasonsInOrder ==
    <<"budget_exceeded", "circuit_open", "degraded_inputs", "keepa_error",
      "keepa_insufficient_data", "keepa_rank_insufficient",
      "no_competitive_offers", "profit_below_threshold", "rank_above_threshold",
      "retry_exhausted", "roi_below_threshold", "spapi_fee_error",
      "spapi_pricing_error">>

\* The place of reason r in that order; another string sorts behind them.
ReasonRank(r) ==
    IF \E i \in DOMAIN ReasonsInOrder : ReasonsInOrder[i] = r
    THEN CHOOSE i \in DOMAIN ReasonsInOrder : ReasonsInOrder[i] = r
    ELSE Len(ReasonsInOrder) + 1

\* The elements of the sequence s.
Elements(s) == {s[i] : i \in DOMAIN s}

\* sorted(S) of a set of reason strings.
RECURSIVE Sorted(_)
Sorted(S) ==
    IF S = {} THEN <<>>
    ELSE LET least == CHOOSE r \in S : \A q \in S : ReasonRank(r) <= ReasonRank(q)
         IN <<least>> \o Sorted(S \ {least})

\* Mutant: the reasons are concatenated, not merged into a set.
AggregatedReasonsConcatenated(decisionReasons, flagReasons) ==
    decisionReasons \o flagReasons

\* _build_result, line 385: sorted({*decision.reasons, *flags["reasons"]}).
AggregatedReasons(decisionReasons, flagReasons) ==
    Sorted(Elements(decisionReasons) \cup Elements(flagReasons))

\* _build_result: the parts of the result document the decision shows in.
BuildResult(th, pa, decision, flags, kf, cf, ff, snapshot, offs) ==
    LET aggregated == AggregatedReasons(decision.reasons, flags.reasons)
    IN [sources |-> [keepa |-> kf, competitive |-> cf, fees |-> ff],
        snapshot |-> snapshot,
        offers |-> offs,
        calc |-> pa,
        thresholds |-> th,
        flags |-> [degraded |-> flags.degraded, cached |-> flags.cached,
                   circuit_open |-> flags.circuit_open, reasons |-> aggregated],
        decision |-> [buy |-> decision.meets_thresholds,
                      profitable |-> decision.is_profitable,
                      reasons |-> aggregated]]

\* The target prices handed to run().
TargetPrices == {None, Some(11)}

\* The purchase costs handed to run().
PurchaseCosts == {0, 5, 8, 20}

\* No result document.
NoDoc == None

\* No step has raised.
NoError == "-"

\* No client operation has returned.
NoOp == [kind |-> "none", data |-> None, flags |-> NoFlags, error |-> "-"]

\* A step of the pipeline or of a caller of the price-history client
\* leaves the threads of the transport and the authenticator alone.
PipeFrame ==
    UNCHANGED <<now, pc, client, attempt, last, result, calls, trace, outcome,
                consumeCalls, consumeOk, streak, lastOpen, authVars, evalVars,
                breakerVars>>

InitPipe ==
    /\ ppc = "new"
    /\ runs = 0
    /\ thresholds = DefaultThresholds
    /\ snapshot_cache = [k \in {CacheKey(id) : id \in Identifiers} |-> None]
    /\ keepa_flags = NoFlags
    /\ keepa_snapshot = DefaultKeepaSnapshot
    /\ competitive_flags = NoFlags
    /\ offers = <<>>
    /\ selling_price = 0
    /\ fees_flags = NoFlags
    /\ base_fees = ZeroFees
    /\ flags_state = InitialFlagsState
    /\ steps = <<>>
    /\ failed = {}
    /\ raisedError = NoError
    /\ doc = NoDoc
    /\ httpRequests = [k \in Keys |-> 0]
    /\ snapCalls = 0
    /\ snapKey = "-"
    /\ snap = NoOp

\* The transport calls client c can make from the present state of its
\* primitives, over the ways the token provider and the sends can end.
Requests(c) ==
    {Request(c, counts, breaker[c], now, tok, outs) :
        tok \in TokenProviderOutcomes(c), outs \in [1..MaxAttempts -> PipeOutcomes]}

\* What a whole transport call of client c leaves behind in the primitives.
NetEffect(c, req) ==
    LET k == BudgetKey(c)
    IN /\ counts' = req.counts
       /\ breaker' = [breaker EXCEPT ![c] = req.breaker]
       /\ semaphores' = IF req.sends > 0 THEN GetSemaphore(semaphores, k)
                        ELSE semaphores
       /\ httpRequests' = [httpRequests EXCEPT ![k] = @ + req.sends]

\* No transport call was made.
NetUntouched == UNCHANGED <<counts, breaker, semaphores, httpRequests>>

\* The payloads a call's response can come to: only a call that returned a
\* response has one.
PayloadsOf(req, payloads) ==
    IF req.result = SuccessResult THEN payloads
    ELSE {CHOOSE p \in payloads : TRUE}

\* Mutant: a call that got no snapshot puts the default snapshot in the
\* cache.
PriceSnapshotCallStoresFailure(key, req, p) ==
    LET cached == snapshot_cache[key]
        got == GetPriceSnapshot(cached, req, p)
    IN /\ IF cached # None THEN NetUntouched ELSE NetEffect("keepa", req)
       /\ snapshot_cache' = IF got.store
                            THEN [snapshot_cache EXCEPT ![key] = got.out.data]
                            ELSE IF cached = None
                            THEN [snapshot_cache EXCEPT ![key] = Some(DefaultKeepaSnapshot)]
                            ELSE snapshot_cache
       /\ snapKey' = key
       /\ snap' = got.out

\* Mutant: the transport call is made before the cache is looked at.
PriceSnapshotCallRequestsFirst(key, req, p) ==
    LET cached == snapshot_cache[key]
        got == GetPriceSnapshot(cached, req, p)
    IN /\ NetEffect("keepa", req)
       /\ snapshot_cache' = IF got.store
                            THEN [snapshot_cache EXCEPT ![key] = got.out.data]
                            ELSE snapshot_cache
       /\ snapKey' = key
       /\ snap' = got.out

\* One get_price_snapshot(query) call for the key: the lookup, and on a
\* miss the transport call req with payload p and the store.
PriceSnapshotCall(key, req, p) ==
    LET cached == snapshot_cache[key]
        got == GetPriceSnapshot(cached, req, p)
    IN /\ IF cached # None THEN NetUntouched ELSE NetEffect("keepa", req)
       /\ snapshot_cache' = IF got.store
                            THEN [snapshot_cache EXCEPT ![key] = got.out.data]
                            ELSE snapshot_cache
       /\ snapKey' = key
       /\ snap' = got.out

\* ScrapeAgent(settings): the agent is built with its thresholds.
NewAgent(th) ==
    /\ ppc = "new"
    /\ ppc' = "idle"
    /\ thresholds' = th
    /\ UNCHANGED <<runs, snapshot_cache, keepa_flags, keepa_snapshot,
                   competitive_flags, offers, selling_price, fees_flags, base_fees,
                   flags_state, steps, failed, raisedError, doc, snapCalls, snapKey,
                   snap>>
    /\ NetUntouched
    /\ PipeFrame

\* A caller of the price-history client asks for a snapshot.
PriceSnapshot(id) ==
    /\ ppc \in {"new", "idle"}
    /\ snapCalls < MaxSnapshotCalls
    /\ snapCalls' = snapCalls + 1
    /\ \E req \in Requests("keepa") : \E p \in PayloadsOf(req, KeepaPayloads) :
          PriceSnapshotCall(CacheKey(id), req, p)
    /\ UNCHANGED <<ppc, runs, thresholds, keepa_flags, keepa_snapshot,
                   competitive_flags, offers, selling_price, fees_flags, base_fees,
                   flags_state, steps, failed, raisedError, doc>>
    /\ PipeFrame

\* Whether what a client operation handed back is a failure of the step:
\* an error raised, or a result the transport degraded.
StepFailed(out) ==
    \/ out.kind = "raise"
    \/ out.flags.reason \in {"circuit_open", "budget_exceeded", "retry_exhausted"}

\* run(), lines 128 to 136: the price-history step.
KeepaStep ==
    /\ ppc = "idle"
    /\ runs < MaxRuns
    /\ runs' = runs + 1
    /\ \E id \in RunIdentifiers :
       \E req \in Requests("keepa") : \E p \in PayloadsOf(req, KeepaPayloads) :
          /\ PriceSnapshotCall(CacheKey(id), req, p)
          /\ LET out == snap'
                 caught == out.kind = "raise" /\ out.error \in Caught("keepa")
                 kf == IF out.kind = "return" THEN out.flags ELSE KeepaErrorFlags
             IN /\ steps' = <<"keepa">>
                /\ failed' = IF StepFailed(out) THEN {"keepa"} ELSE {}
                /\ IF out.kind = "raise" /\ ~caught
                   THEN /\ ppc' = "aborted"
                        /\ raisedError' = out.error
                        /\ UNCHANGED <<keepa_flags, keepa_snapshot, flags_state>>
                   ELSE /\ ppc' = "pricing"
                        /\ keepa_flags' = kf
                        /\ keepa_snapshot' =
                             IF out.kind = "return" /\ out.data # None THEN out.data[1]
                             ELSE DefaultKeepaSnapshot
                        /\ flags_state' = MergeFlags(InitialFlagsState, kf)
                        /\ UNCHANGED raisedError
    /\ UNCHANGED <<thresholds, competitive_flags, offers, selling_price, fees_flags,
                   base_fees, doc, snapCalls>>
    /\ PipeFrame

\* run(), lines 140 to 150: the competitive-pricing step and the selling
\* price.
PricingStep ==
    /\ ppc = "pricing"
    /\ \E req \in Requests("spapi") : \E offerList \in PayloadsOf(req, OfferLists) :
       \E target \in TargetPrices :
          LET out == GetCompetitivePricingOffers(req, offerList)
              caught == out.kind = "raise" /\ out.error \in Caught("pricing")
              cf == IF out.kind = "return" THEN out.flags ELSE PricingErrorFlags
              found == IF out.kind = "return" /\ out.data # None THEN out.data[1]
                       ELSE <<>>
          IN /\ NetEffect("spapi", req)
             /\ steps' = Append(steps, "pricing")
             /\ failed' = IF StepFailed(out) THEN failed \cup {"pricing"} ELSE failed
             /\ IF out.kind = "raise" /\ ~caught
                THEN /\ ppc' = "aborted"
                     /\ raisedError' = out.error
                     /\ UNCHANGED <<competitive_flags, offers, flags_state, selling_price>>
                ELSE /\ ppc' = "fees"
                     /\ competitive_flags' = cf
                     /\ offers' = found
                     /\ flags_state' = MergeFlags(flags_state, cf)
                     /\ selling_price' = DetermineSellingPrice(target, found, keepa_snapshot)
                     /\ UNCHANGED raisedError
    /\ UNCHANGED <<runs, thresholds, snapshot_cache, keepa_flags, keepa_snapshot,
                   fees_flags, base_fees, doc, snapCalls, snapKey, snap>>
    /\ PipeFrame

\* run(), lines 154 to 162: the fees step.
FeesStep ==
    /\ ppc = "fees"
    /\ \E req \in Requests("spapi") : \E payload \in PayloadsOf(req, FeePayloads) :
          LET out == GetFeesEstimate(req, payload)
              caught == out.kind = "raise" /\ out.error \in Caught("fees")
              ff == IF out.kind = "return" THEN out.flags ELSE FeeErrorFlags
          IN /\ NetEffect("spapi", req)
             /\ steps' = Append(steps, "fees")
             /\ failed' = IF StepFailed(out) THEN failed \cup {"fees"} ELSE failed
             /\ IF out.kind = "raise" /\ ~caught
                THEN /\ ppc' = "aborted"
                     /\ raisedError' = out.error
                     /\ UNCHANGED <<fees_flags, base_fees, flags_state>>
                ELSE /\ ppc' = "decide"
                     /\ fees_flags' = ff
                     /\ base_fees' = IF out.kind = "return" /\ out.data # None
                                     THEN out.data[1] ELSE ZeroFees
                     /\ flags_state' = MergeFlags(flags_state, ff)
                     /\ UNCHANGED raisedError
    /\ UNCHANGED <<runs, thresholds, snapshot_cache, keepa_flags, keepa_snapshot,
                   competitive_flags, offers, selling_price, doc, snapCalls, snapKey,
                   snap>>
    /\ PipeFrame

\* run(), lines 164 to 211: fees, profit, decision and the result document.
Decide ==
    /\ ppc = "decide"
    /\ \E cost \in PurchaseCosts :
          LET fees == ComposeFees(base_fees, selling_price, 0)
              pa == CalculateProfit(selling_price, cost, fees)
              decision == MakeDecision(thresholds, pa, keepa_snapshot, offers, flags_state)
          IN doc' = Some(BuildResult(thresholds, pa, decision, flags_state, keepa_flags,
                                     competitive_flags, fees_flags, keepa_snapshot,
                                     offers))
    /\ ppc' = "done"
    /\ UNCHANGED <<runs, thresholds, snapshot_cache, keepa_flags, keepa_snapshot,
                   competitive_flags, offers, selling_price, fees_flags, base_fees,
                   flags_state, steps, failed, raisedError, snapCalls, snapKey, snap>>
    /\ NetUntouched
    /\ PipeFrame

\* run() has returned or raised; the agent is free for the next run.
FinishRun ==
    /\ ppc \in {"done", "aborted"}
    /\ ppc' = "idle"
    /\ keepa_flags' = NoFlags
    /\ keepa_snapshot' = DefaultKeepaSnapshot
    /\ competitive_flags' = NoFlags
    /\ offers' = <<>>
    /\ selling_price' = 0
    /\ fees_flags' = NoFlags
    /\ base_fees' = ZeroFees
    /\ flags_state' = InitialFlagsState
    /\ steps' = <<>>
    /\ failed' = {}
    /\ raisedError' = NoError
    /\ doc' = NoDoc
    /\ snapKey' = "-"
    /\ snap' = NoOp
    /\ UNCHANGED <<runs, thresholds, snapshot_cache, snapCalls>>
    /\ NetUntouched
    /\ PipeFrame

\* TTLCache: the entry of a key has outlived ttl_seconds.
ExpireCache(key) ==
    /\ ppc \in {"new", "idle"}
    /\ snapshot_cache[key] # None
    /\ snapshot_cache' = [snapshot_cache EXCEPT ![key] = None]
    /\ UNCHANGED <<ppc, runs, thresholds, keepa_flags, keepa_snapshot,
                   competitive_flags, offers, selling_price, fees_flags, base_fees,
                   flags_state, steps, failed, raisedError, doc, snapCalls, snapKey,
                   snap>>
    /\ NetUntouched
    /\ PipeFrame

NextPipe ==
    \/ \E th \in ThresholdSettings : NewAgent(th)
    \/ Tick
    \/ KeepaStep
    \/ PricingStep
    \/ FeesStep
    \/ Decide
    \/ FinishRun
    \/ \E id \in RunIdentifiers : ExpireCache(CacheKey(id))

\* Callers of get_price_snapshot, one call after the other.
NextKeepa ==
    \/ Tick
    \/ \E id \in Identifiers : PriceSnapshot(id)
    \/ \E id \in Identifiers : ExpireCache(CacheKey(id))

\* No computation has been asked for.
NoArgs == <<>>
\* No computation has returned.
NoRet == <<>>

InitEval ==
    /\ args = NoArgs
    /\ ret = NoRet

\* The transport, the authenticator and the pipeline at rest.
InitRest ==
    /\ InitNet
    /\ InitAuth
    /\ InitPipe
    /\ admitted = [c \in Clients |-> 0]

\* A computation on the arguments leaves everything else alone.
EvalFrame == UNCHANGED <<netVars, authVars, pipeVars, breakerVars, args>>

Init == InitRest /\ InitEval

Next ==
    \/ Tick
    \/ \E t \in Threads : Call(t)
    \/ \E t \in Threads : ConsumeBudget(t)
    \/ \E t \in Threads : AcquireAndSend(t)
    \/ \E t \in Threads : \E o \in Outcomes : SendReturns(t, o)
    \/ \E t \in Threads : Handle(t)
    \/ \E t \in Threads : Return(t)

Spec == Init /\ [][Next]_vars

\* A call in progress goes on: consume() and the handlers return, a free
\* permit is taken (the calls competing for it are finitely many), and
\* every HTTP attempt ends, the timeout (2 s, 5 s) at the latest.
CallsProceed ==
    \A t \in Threads :
        /\ WF_vars(ConsumeBudget(t))
        /\ WF_vars(AcquireAndSend(t))
        /\ WF_vars(\E o \in Outcomes : SendReturns(t, o))
        /\ WF_vars(Handle(t))

LiveSpec == Spec /\ CallsProceed

\* ------------------------------------------- the callers of a breaker
\* Any number of threads inside _request of one client: between allow() and
\* the record of the handler that ends the call, a call does not touch the
\* breaker.
\* Calls one behaviour admits.
MaxAdmissions == 5
\* Calls of one client in progress at a time.
MaxPending == 3

\* A step of a caller of the breaker leaves the rest alone.
BreakerFrame ==
    UNCHANGED <<counts, semaphores, pc, client, attempt, last, result, trace,
                outcome, consumeCalls, consumeOk, streak, lastOpen, authVars,
                pipeVars, evalVars>>

\* _request, lines 169 to 173: allow() admits the call or raises
\* CircuitOpen.
Admit(c) ==
    /\ calls < MaxAdmissions
    /\ admitted[c] < MaxPending
    /\ calls' = calls + 1
    /\ LET a == Allow(breaker[c], now)
       IN /\ breaker' = [breaker EXCEPT ![c] = a.b]
          /\ admitted' = [admitted EXCEPT ![c] = IF a.ok THEN @ + 1 ELSE @]
    /\ UNCHANGED now
    /\ BreakerFrame

\* _request, lines 195 to 210: an admitted call ends in the way `how` and
\* its handler makes its record on the breaker.
EndCall(c, how) ==
    /\ admitted[c] > 0
    /\ admitted' = [admitted EXCEPT ![c] = @ - 1]
    /\ LET rec == BreakerRecord(how)
       IN breaker' = [breaker EXCEPT ![c] =
                        IF rec = "success" THEN RecordSuccess(@)
                        ELSE IF rec = "failure" THEN RecordFailure(@, now)
                        ELSE @]
    /\ UNCHANGED <<now, calls>>
    /\ BreakerFrame

\* time.monotonic() advances.
BreakerTick ==
    /\ now < MaxTime
    /\ now' = now + 1
    /\ UNCHANGED <<breaker, calls, admitted>>
    /\ BreakerFrame

NextBreaker ==
    \/ BreakerTick
    \/ \E c \in Clients : Admit(c)
    \/ \E c \in Clients : \E how \in {"success", "exhausted", "fatal", "budget"} :
          EndCall(c, how)

BreakerSpec == Init /\ [][NextBreaker]_vars

\* Concurrent callers of the authenticator.
AuthSpec == Init /\ [][NextAuth]_vars

\* The runs of one agent, one after the other.
PipeSpec == Init /\ [][NextPipe]_vars

\* The price-history client and its cache under a sequence of callers.
KeepaSpec == Init /\ [][NextKeepa]_vars

\* ------------------------------------------- the selling price, by itself
\* Longest offer list handed to _determine_selling_price.
MaxOffers == 2

\* The sequences over S of length at most n.
SeqUpTo(S, n) == UNION {[1..k -> S] : k \in 0..n}

\* The arguments of _determine_selling_price: a target price or None, the
\* landed prices of the offers, the snapshot.
SellingPriceArgs ==
    [target : {None, Some(-3), Some(0), Some(5), Some(11)},
     offers : SeqUpTo({-1, 0, 9, 12}, MaxOffers),
     snapshot : {Snapshot(c, NoRank) : c \in {-2, 0, 12}}]

InitSelling == InitRest /\ args \in SellingPriceArgs /\ ret = NoRet

\* self._determine_selling_price(target_price, offers, keepa_snapshot)
ApplyDetermineSellingPrice ==
    /\ ret = NoRet
    /\ ret' = Some(DetermineSellingPrice(args.target, args.offers, args.snapshot))
    /\ EvalFrame

SellingSpec == InitSelling /\ [][ApplyDetermineSellingPrice]_vars

\* ------------------------------------------------------ derived notions
KeyOf(t) == BudgetKey(client[t])

\* The calls whose HTTP send for key k is in flight.
InFlight(k) == {t \in Threads : pc[t] = "send" /\ KeyOf(t) = k}

\* The permits key k's semaphore has left (a semaphore not yet created
\* is created full).
Permits(k) == IF k \in DOMAIN semaphores THEN semaphores[k] ELSE MaxInflight

Min(a, b) == IF a <= b THEN a ELSE b

\* Event e occurs in the call of thread t.
Has(t, e) == \E i \in DOMAIN trace[t] : trace[t][i] = e

\* ---------------------------------------------------------------- claims

\* C1: for every key, of all the consume() calls made so far under any
\* interleaving exactly min(calls, limit) succeeded and every other one
\* failed with BudgetExceeded, and the stored count is the number of
\* successes and never exceeds the limit.
C1_BudgetAdmitsExactlyLimit ==
    \A k \in Keys :
        /\ consumeOk[k] = Min(consumeCalls[k], BudgetLimit)
        /\ counts[k] = consumeOk[k]
        /\ counts[k] <= BudgetLimit

\* Two concurrent calls on one key: one holds a consumed unit, the other's
\* consume has just failed at the exhausted limit.
C1_Witness ==
    \E t1, t2 \in Threads :
        /\ t1 # t2
        /\ pc[t1] \in {"acquire", "send"}
        /\ pc[t2] = "done" /\ result[t2].flags.reason = "budget_exceeded"
        /\ KeyOf(t1) = KeyOf(t2)
        /\ consumeCalls[KeyOf(t1)] > BudgetLimit
        /\ counts[KeyOf(t1)] = BudgetLimit

\* C2: for every key at most max_inflight sends are in flight, and a call
\* waiting for a permit is held back only by the sends in flight for its own
\* key: it can proceed whenever fewer than max_inflight of them are.
C2_InflightBounded ==
    /\ \A k \in Keys : Cardinality(InFlight(k)) <= MaxInflight
    /\ \A t \in Threads :
          (pc[t] = "acquire" /\ Cardinality(InFlight(KeyOf(t))) < MaxInflight)
              => ENABLED AcquireAndSend(t)

\* Sends for two different keys are in flight at the same time, each key at
\* its limit.
C2_Witness ==
    \E t1, t2 \in Threads :
        /\ pc[t1] = "send" /\ pc[t2] = "send"
        /\ KeyOf(t1) # KeyOf(t2)
        /\ Cardinality(InFlight(KeyOf(t1))) = MaxInflight

\* C3: a call holds a permit exactly while its send is in flight: every
\* permit acquired in a call has been released unless the send is still
\* running, so none is held in backoff or after the call, and the permits
\* left for a key are max_inflight minus the sends in flight for it.
C3_PermitReleasedOnEveryExit ==
    /\ \A t \in Threads :
          Count(trace[t], "acquire") - Count(trace[t], "release")
              = (IF pc[t] = "send" THEN 1 ELSE 0)
    /\ \A k \in Keys : Permits(k) = MaxInflight - Cardinality(InFlight(k))
    /\ (\A t \in Threads : pc[t] \in {"idle", "done"})
          => \A k \in Keys : Permits(k) = MaxInflight

\* A call sleeps in retry backoff after an attempt that acquired a permit,
\* and the permit is free; the other call has ended with a raised error after
\* its own send.
C3_Witness ==
    \E t1, t2 \in Threads :
        /\ pc[t1] = "backoff" /\ Has(t1, "acquire")
        /\ Permits(KeyOf(t1)) = MaxInflight
        /\ pc[t2] = "done" /\ result[t2].kind = "raise" /\ Has(t2, "acquire")

\* Thread t starts a transport call in this step.
CallStep(t) == pc[t] = "idle" /\ pc'[t] # "idle"

\* The breaker of client c is open and its cooldown has not elapsed.
OpenAndHot(c) ==
    breaker[c].opened_at # NoTime /\ now - breaker[c].opened_at < Cooldown

\* C4: when failure_threshold failures have been recorded with no success
\* in between, the breaker is open, and every call started before cooldown
\* has elapsed since that opening is denied without an HTTP send.
C4_OpenBreakerDeniesUntilCooldown ==
    [][/\ \A c \in Clients :
             (streak'[c] > streak[c] /\ streak'[c] >= FailureThreshold)
                 => breaker'[c].opened_at = now
       /\ \A t \in Threads :
             (/\ CallStep(t)
              /\ lastOpen[client'[t]] # NoTime
              /\ now - lastOpen[client'[t]] < Cooldown)
                 => (/\ pc'[t] = "done"
                     /\ result'[t].flags.circuit_open
                     /\ trace'[t] = <<"denied">>)]_vars

\* C5: a call started while the breaker is open and its cooldown has not
\* elapsed ends at once with data=null, degraded=true, circuit_open=true,
\* reason="circuit_open", and changes nothing else: no budget unit, no
\* consume() call, no semaphore, no attempt, and the breaker's failure
\* count and open time stay as they were.
C5_DeniedCallChangesNothing ==
    [][\A t \in Threads :
          (CallStep(t) /\ OpenAndHot(client'[t]))
              => (/\ pc'[t] = "done"
                  /\ result'[t].kind = "return"
                  /\ result'[t].data = "null"
                  /\ result'[t].flags.degraded
                  /\ result'[t].flags.circuit_open
                  /\ result'[t].flags.reason = "circuit_open"
                  /\ ~ \E i \in 1..Len(trace'[t]) :
                         trace'[t][i] \in {"consume", "acquire", "send",
                                           "record_failure", "record_success"}
                  /\ UNCHANGED <<counts, consumeCalls, semaphores, breaker>>)]_vars

\* A call has been denied by an open breaker on a client whose budget was
\* used before, while another call is still under way.
C5_Witness ==
    \E t1, t2 \in Threads :
        /\ pc[t1] = "done" /\ result[t1].flags.circuit_open
        /\ OpenAndHot(client[t1])
        /\ counts[KeyOf(t1)] > 0
        /\ pc[t2] \notin {"idle", "done"}

\* C6: an allow() made once cooldown has elapsed since the breaker opened
\* admits the call and leaves the breaker closed with failure count 0; and
\* a closed breaker opens only when failure_threshold failures have been
\* recorded since the last reset or success.
C6_CooldownResetsToClosed ==
    [][/\ \A t \in Threads :
             (/\ CallStep(t)
              /\ breaker[client'[t]].opened_at # NoTime
              /\ now - breaker[client'[t]].opened_at >= Cooldown)
                 => (/\ trace'[t][1] = "allow_reset"
                     /\ breaker'[client'[t]] = [failures |-> 0, opened_at |-> NoTime])
       /\ \A c \in Clients :
             (breaker[c].opened_at = NoTime /\ breaker'[c].opened_at # NoTime)
                 => streak'[c] >= FailureThreshold]_vars

\* After a reset by allow() the admitted call itself failed, and the
\* breaker is still closed with that one failure counted.
C6_Witness ==
    \E t \in Threads :
        /\ pc[t] = "done"
        /\ trace[t][1] = "allow_reset"
        /\ Has(t, "record_failure")
        /\ breaker[client[t]] = [failures |-> 1, opened_at |-> NoTime]
        /\ FailureThreshold > 1

\* The outcomes the retry policy is to treat as retryable: a timeout, a
\* connection error, or a response with status 429, 500, 502, 503 or 504.
RetryableOutcome(o) ==
    \/ o.kind \in {"Timeout", "ConnectionError"}
    \/ o.kind = "response" /\ o.status \in {429, 500, 502, 503, 504}

\* The outcomes that are fatal for the call: a response with another
\* status >= 400, or a transport error that is neither timeout nor
\* connection error.
FatalOutcome(o) ==
    \/ o.kind = "RequestException"
    \/ o.kind = "response" /\ o.status >= 400
          /\ o.status \notin {429, 500, 502, 503, 504}

\* The last event of thread t's call so far.
LastEvent(t) == IF trace[t] = <<>> THEN "-" ELSE trace[t][Len(trace[t])]

\* C7: a send that ended in a retryable outcome ends its attempt as
\* retryable; no call makes more than max_attempts sends; and a finished
\* call that made a send, whose attempts all ended retryable and whose
\* budget sufficed, made exactly max_attempts sends, returned data=null with
\* degraded=true and reason="retry_exhausted", and recorded exactly one
\* failure and no success on the breaker.
C7_RetryExhaustedAfterMaxAttempts ==
    \A t \in Threads :
        /\ (pc[t] = "handle" /\ RetryableOutcome(outcome[t]))
              => LastEvent(t) = "retryable"
        /\ Count(trace[t], "send") <= MaxAttempts
        /\ (/\ pc[t] = "done"
            /\ Has(t, "send")
            /\ ~Has(t, "fatal") /\ ~Has(t, "success")
            /\ ~Has(t, "budget_exceeded"))
              => (/\ Count(trace[t], "send") = MaxAttempts
                  /\ Count(trace[t], "retryable") = MaxAttempts
                  /\ result[t].kind = "return"
                  /\ result[t].data = "null"
                  /\ result[t].flags.degraded
                  /\ result[t].flags.reason = "retry_exhausted"
                  /\ client[t] = "spapi"
                        => (/\ GetCompetitivePricing(result[t]).data = "[]"
                            /\ GetCompetitivePricing(result[t]).flags = result[t].flags)
                  /\ Count(trace[t], "record_failure") = 1
                  /\ Count(trace[t], "record_success") = 0)

\* A call has ended retry_exhausted after max_attempts sends.
C7_Witness ==
    \E t \in Threads :
        /\ pc[t] = "done"
        /\ result[t].flags.reason = "retry_exhausted"
        /\ Count(trace[t], "send") = MaxAttempts
        /\ MaxAttempts > 1

\* C8: in every attempt the send directly follows the semaphore
\* acquisition, which directly follows the budget consumption; a call
\* records at most once on the breaker, and the record is the last event
\* of a call that has ended (so never between attempts).
C8_AttemptOrderAndSingleRecord ==
    \A t \in Threads :
        /\ \A i \in 1..Len(trace[t]) :
              /\ trace[t][i] = "send"
                    => (i > 2 /\ trace[t][i-1] = "acquire"
                              /\ trace[t][i-2] = "consume")
              /\ trace[t][i] = "acquire"
                    => (i > 1 /\ trace[t][i-1] = "consume"
                              /\ i < Len(trace[t]) /\ trace[t][i+1] = "send")
              /\ trace[t][i] \in {"record_failure", "record_success"}
                    => (i = Len(trace[t]) /\ pc[t] = "done")
        /\ Count(trace[t], "record_failure") + Count(trace[t], "record_success") <= 1

\* A call of two attempts has ended with its one record on the breaker.
C8_Witness ==
    \E t \in Threads :
        /\ pc[t] = "done"
        /\ Count(trace[t], "send") = 2
        /\ Count(trace[t], "backoff") = 1
        /\ LastEvent(t) \in {"record_failure", "record_success"}

\* C9: when consume fails with BudgetExceeded in an attempt, nothing
\* follows it in the call (no acquisition, no send, no breaker record), the
\* sends of the call are those of its earlier attempts, and the call ends
\* with data=null, degraded=true, reason="budget_exceeded".
C9_BudgetExceededEndsCall ==
    \A t \in Threads :
        Has(t, "budget_exceeded")
            => (/\ LastEvent(t) = "budget_exceeded"
                /\ Count(trace[t], "budget_exceeded") = 1
                /\ Count(trace[t], "send") = Count(trace[t], "consume")
                /\ Count(trace[t], "send") = Count(trace[t], "retryable")
                /\ ~Has(t, "record_failure") /\ ~Has(t, "record_success")
                /\ pc[t] = "done"
                /\ result[t].kind = "return"
                /\ result[t].data = "null"
                /\ result[t].flags.degraded
                /\ result[t].flags.reason = "budget_exceeded")

\* The budget ran out on a later attempt: the call ended budget_exceeded
\* after a send that had ended retryable.
C9_Witness ==
    \E t \in Threads :
        /\ pc[t] = "done"
        /\ result[t].flags.reason = "budget_exceeded"
        /\ Has(t, "send")

\* C10: a send that ended in a fatal outcome ends its attempt as fatal;
\* an attempt that ended fatal is the last of its call, and the call ends
\* by raising the client's typed error after recording exactly one failure
\* and no success on the breaker.
C10_FatalEndsCallWithTypedError ==
    \A t \in Threads :
        /\ (pc[t] = "handle" /\ FatalOutcome(outcome[t]))
              => LastEvent(t) = "fatal"
        /\ Has(t, "fatal")
              => (/\ Count(trace[t], "fatal") = 1
                  /\ pc[t] \in {"handle", "done"}
                  /\ pc[t] = "handle" => LastEvent(t) = "fatal"
                  /\ pc[t] = "done"
                        => (/\ trace[t][Len(trace[t]) - 1] = "fatal"
                            /\ LastEvent(t) = "record_failure"
                            /\ Count(trace[t], "record_failure") = 1
                            /\ Count(trace[t], "record_success") = 0
                            /\ result[t].kind = "raise"
                            /\ result[t].error =
                                  (IF client[t] = "spapi" THEN "AmazonSPAPIError"
                                   ELSE "KeepaAPIError")))

\* Calls of both clients have ended with their typed errors, one of them on
\* a second attempt.
C10_Witness ==
    \E t1, t2 \in Threads :
        /\ pc[t1] = "done" /\ result[t1].error = "AmazonSPAPIError"
        /\ pc[t2] = "done" /\ result[t2].error = "KeepaAPIError"
        /\ Count(trace[t1], "send") = 2

\* C11: a call that ends with a success response on its k-th attempt, after
\* k-1 attempts that ended retryable, returns the response with non-degraded
\* flags, has made exactly k sends and consumed exactly k budget units, and
\* its record_success leaves the breaker closed with failure count 0.
C11_RecoversAfterRetryableFailures ==
    [][\A t \in Threads :
          (pc[t] = "handle" /\ last[t] = "success" /\ pc'[t] = "done")
              => LET k == attempt[t]
                 IN /\ k <= MaxAttempts
                    /\ result'[t] = SuccessResult
                    /\ ~result'[t].flags.degraded
                    /\ Count(trace'[t], "send") = k
                    /\ Count(trace'[t], "consume") = k
                    /\ Count(trace'[t], "retryable") = k - 1
                    /\ Count(trace'[t], "record_failure") = 0
                    /\ breaker'[client[t]] = ClosedBreaker]_vars

\* A call has recovered on its second attempt after a retryable failure,
\* on a client whose budget then stands at two or more.
C11_Witness ==
    \E t \in Threads :
        /\ pc[t] = "done"
        /\ result[t] = SuccessResult
        /\ Count(trace[t], "retryable") = 1
        /\ Count(trace[t], "send") = 2
        /\ counts[KeyOf(t)] >= 2
        /\ breaker[client[t]] = ClosedBreaker

\* Thread t is between the decision to refresh and the return of its
\* refresh (get_access_token, lines 46 to 65).
Refreshing(t) == apc[t] \in {"post", "store_token", "store_expiry", "return_new"}

\* C13: token refreshes are single-flight: at no time are two callers
\* refreshing at once, and callers that have returned a token while the
\* endpoint was asked once hold that one token.
C13_SingleFlightRefresh ==
    /\ Cardinality({t \in Threads : Refreshing(t)}) <= 1
    /\ \A t1, t2 \in Threads :
          (/\ apc[t1] = "done" /\ apc[t2] = "done"
           /\ returned[t1].kind = "return" /\ returned[t2].kind = "return"
           /\ authCalls = 2)
              => (posts = 1 /\ returned[t1] = returned[t2])

\* C14: a call that returned the cached token without a refresh did so with
\* its now before that token's expires_at - 60 s, and a call that began
\* with a fresh token cached returned without a refresh.
C14_CachedTokenOnlyWhileFresh ==
    \A t \in Threads :
        /\ (apc[t] = "done" /\ fromCache[t])
              => (/\ returned[t].kind = "return"
                  /\ returned[t].token # NoToken
                  /\ anow[t] < returned[t].token.expiry - TokenSkew)
        /\ (apc[t] = "done" /\ entryFresh[t]) => fromCache[t]

\* The breaker of client c is open.
IsOpen(b) == b.opened_at # NoTime

\* Two calls on client c have left the retry loop and are about to record
\* on its breaker, one a success and one a failure.
RecordRace(c) ==
    \E t1, t2 \in Threads :
        /\ t1 # t2
        /\ pc[t1] = "handle" /\ client[t1] = c /\ BreakerRecord(last[t1]) = "success"
        /\ pc[t2] = "handle" /\ client[t2] = c /\ BreakerRecord(last[t2]) = "failure"

C12_CacheHitTouchesNothing ==
    [][(snapCalls' = snapCalls + 1 /\ snapshot_cache[snapKey'] # None)
         => /\ snap'.kind = "return"
            /\ snap'.data = snapshot_cache[snapKey']
            /\ snap'.flags.cached
            /\ UNCHANGED <<counts, semaphores, breaker, httpRequests, snapshot_cache>>]_vars

\* A call was answered from the cache while the breaker of the client was
\* open and its budget used up.
C12_Witness ==
    /\ snap.kind = "return"
    /\ snap.flags.cached
    /\ breaker["keepa"].opened_at # NoTime
    /\ now - breaker["keepa"].opened_at < Cooldown
    /\ counts[BudgetKey("keepa")] >= BudgetLimit
\* ------------------------------------------------------------------ C16
\* The run has returned a result document.
Returned == ppc = "done" /\ doc # NoDoc

\* C16: in every result document, decision.buy = true implies
\* profit >= min_profit, roi >= min_roi, max_rank is null or the
\* snapshot's rank is at most max_rank, the offer list is not empty, and
\* the aggregated degraded flag is false.
C16_BuyImpliesThresholds ==
    (Returned /\ doc[1].decision.buy)
        => LET d == doc[1]
           IN /\ d.calc.profit >= d.thresholds.min_profit
              /\ d.calc.roi >= d.thresholds.min_roi
              /\ \/ d.thresholds.max_rank = NoMaxRank
                 \/ /\ d.snapshot.sales_rank # NoRank
                    /\ d.snapshot.sales_rank <= d.thresholds.max_rank
              /\ d.offers # <<>>
              /\ ~d.flags.degraded
\* ------------------------------------------------------------------ C17
\* The five conditions of the threshold rule on a result document.
FiveConditions(d) ==
    /\ d.calc.profit >= d.thresholds.min_profit
    /\ d.calc.roi >= d.thresholds.min_roi
    /\ \/ d.thresholds.max_rank = NoMaxRank
       \/ /\ d.snapshot.sales_rank # NoRank
          /\ d.snapshot.sales_rank <= d.thresholds.max_rank
    /\ d.offers # <<>>
    /\ ~d.flags.degraded

\* C17: meets_thresholds (decision.buy) is true exactly when profit >=
\* min_profit, roi >= min_roi, rank <= max_rank if max_rank is configured,
\* an offer is present and the inputs are not degraded; so a run whose
\* reasons are empty has decision.buy = true.
C17_MeetsThresholdsIffFiveConditions ==
    Returned
        => /\ doc[1].decision.buy <=> FiveConditions(doc[1])
           /\ doc[1].decision.reasons = <<>> => doc[1].decision.buy
\* ------------------------------------------------------------------ C18
\* The closed reason vocabulary.
ReasonVocabulary ==
    {"circuit_open", "budget_exceeded", "retry_exhausted", "keepa_error",
     "keepa_insufficient_data", "keepa_rank_insufficient", "spapi_pricing_error",
     "spapi_fee_error", "profit_below_threshold", "roi_below_threshold",
     "rank_above_threshold", "no_competitive_offers", "degraded_inputs"}

\* C18: in every result document, every string of decision.reasons and of
\* flags.reasons is one of the thirteen values of the reason vocabulary.
C18_ReasonsInVocabulary ==
    Returned
        => /\ Elements(doc[1].decision.reasons) \subseteq ReasonVocabulary
           /\ Elements(doc[1].flags.reasons) \subseteq ReasonVocabulary

\* A document whose reasons come from a source's error, from the transport
\* and from the threshold rule.
C18_Witness ==
    /\ Returned
    /\ {"keepa_error", "retry_exhausted", "no_competitive_offers", "degraded_inputs"}
          \subseteq Elements(doc[1].decision.reasons)
\* ------------------------------------------------------------------ C19
\* The threshold reasons of a result document.
ThresholdReasons(d) ==
    (IF d.calc.profit < d.thresholds.min_profit THEN {"profit_below_threshold"} ELSE {})
    \cup (IF d.calc.roi < d.thresholds.min_roi THEN {"roi_below_threshold"} ELSE {})
    \cup (IF /\ d.thresholds.max_rank # NoMaxRank
             /\ d.snapshot.sales_rank # NoRank
             /\ d.snapshot.sales_rank > d.thresholds.max_rank
          THEN {"rank_above_threshold"} ELSE {})
    \cup (IF d.offers = <<>> THEN {"no_competitive_offers"} ELSE {})
    \cup (IF d.flags.degraded THEN {"degraded_inputs"} ELSE {})

\* The reasons the three sources of a result document report.
SourceReasons(d) ==
    {d.sources.keepa.reason, d.sources.competitive.reason, d.sources.fees.reason}
        \ {"None"}

\* The sequence of reason strings is ascending without a repetition.
StrictlyAscending(rs) ==
    \A i, j \in DOMAIN rs : i < j => ReasonRank(rs[i]) < ReasonRank(rs[j])

\* C19: in every result document flags.reasons and decision.reasons are
\* the same list, sorted ascending and free of duplicates, and its elements
\* are the threshold reasons together with the reasons the three sources
\* report.
C19_ReasonsSortedUniqueUnion ==
    Returned
        => /\ doc[1].flags.reasons = doc[1].decision.reasons
           /\ StrictlyAscending(doc[1].decision.reasons)
           /\ Elements(doc[1].decision.reasons)
                = ThresholdReasons(doc[1]) \cup SourceReasons(doc[1])

\* Two sources report retry_exhausted; the document lists it once.
C19_Witness ==
    /\ Returned
    /\ doc[1].sources.keepa.reason = "retry_exhausted"
    /\ doc[1].sources.competitive.reason = "retry_exhausted"
    /\ Count(doc[1].decision.reasons, "retry_exhausted") = 1
    /\ Len(doc[1].decision.reasons) >= 3
\* ------------------------------------------------------------------ C20
\* The failures of a fetch step the run is to survive.
ListedErrors == {"KeepaAPIError", "AmazonSPAPIError", "TokenAcquisitionError"}

\* The fetch steps in the order of run().
FetchOrder == <<"keepa", "pricing", "fees">>

FeeArgs ==
    [referral_fee : {0, 5}, closing_fee : {0, 5}, fba_fee : {0, 5},
     inbound_shipping : {0, 5}, packaging_materials : {0, 5}, storage_fee : {0, 5},
     taxes : {0, 5}, fx_spread : {0, 5}, returns_cost : {0, 5}, other_costs : {0, 5}]

\* The arguments of calculate_profit: amounts in fine units, and the fine
\* units in one rounding quantum (a power of ten, as Decimal.quantize
\* rounds to the exponent of the quantum).
ProfitArgs ==
    [selling_price : {0, 95, 100}, purchase_cost : {-40, 0, 32, 45},
     fees : FeeArgs, rounding : {1, 10}]

InitProfit == InitRest /\ args \in ProfitArgs /\ ret = NoRet

\* calculate_profit(selling_price, purchase_cost, fees, rounding)
ApplyCalculateProfit ==
    /\ ret = NoRet
    /\ ret' = Some(ProfitAnalysis(args.selling_price, args.purchase_cost, args.fees,
                                  args.rounding))
    /\ EvalFrame

ProfitSpec == InitProfit /\ [][ApplyCalculateProfit]_vars

\* -------------------------------------------------- ProductQuery, by itself
\* The values of asin and barcode: absent, empty, and strings of which
\* Python takes every non-empty one for true.
IdentifierArgs ==
    {None, Some(""), Some(" "), Some("0"), Some("B00A"), Some("B00B"),
     Some("490"), Some("4901234567894")}

\* Python's truth value of an Optional[str].
Truthy(value) == value # None /\ value[1] # ""

\* ProductQuery(asin=asin, barcode=barcode): the dataclass is built and
\* __post_init__ raises ValueError when neither field is true.
ProductQuery(asin, barcode) ==
    IF ~(Truthy(asin) \/ Truthy(barcode))
    THEN [op |-> "ProductQuery", kind |-> "raise", error |-> "ValueError"]
    ELSE [op |-> "ProductQuery", kind |-> "return", error |-> "-"]

\* parse_arguments(): parser.error (exit 2) when neither option is true.
ParseArguments(asin, barcode) ==
    IF ~(Truthy(asin) \/ Truthy(barcode))
    THEN [op |-> "parse_arguments", kind |-> "raise", error |-> "SystemExit(2)"]
    ELSE [op |-> "parse_arguments", kind |-> "return", error |-> "-"]

InitQuery ==
    InitRest /\ args \in [asin : IdentifierArgs, barcode : IdentifierArgs] /\ ret = NoRet

ApplyProductQuery ==
    /\ ret = NoRet
    /\ ret' = Some(ProductQuery(args.asin, args.barcode))
    /\ EvalFrame

ApplyParseArguments ==
    /\ ret = NoRet
    /\ ret' = Some(ParseArguments(args.asin, args.barcode))
    /\ EvalFrame

NextQuery == ApplyProductQuery \/ ApplyParseArguments

QuerySpec == InitQuery /\ [][NextQuery]_vars

\* ------------------------------------------- Keepa's compact series, by itself
\* KEEPA_EPOCH, 2011-01-01T00:00:00Z, in seconds since 1970; a datetime is
\* its seconds since 1970.
KeepaEpoch == 1293840000

\* _decode_compact_series from the component at position i on (the code's
\* index + 1); absolute is absolute_minutes (None before the first pair).
\* The components are JSON integers, so int() returns them.
RECURSIVE DecodeFrom(_, _, _, _)
DecodeFrom(series, i, absolute, results) ==
    IF i > Len(series) THEN results
    ELSE LET minutes_component == series[i]
             absolute_minutes ==
                 IF absolute = None THEN minutes_component
                 ELSE absolute[1] + minutes_component
         IN IF i + 1 > Len(series) THEN results
            ELSE DecodeFrom(series, i + 2, Some(absolute_minutes),
                            Append(results,
                                   <<KeepaEpoch + 60 * absolute_minutes, series[i + 1]>>))

\* Mutant: every minutes component is taken for an absolute time.
DecodeCompactSeriesAbsoluteOnly(series) ==
    [k \in 1..(Len(series) \div 2) |->
        <<KeepaEpoch + 60 * series[2 * k - 1], series[2 * k]>>]

\* _decode_compact_series(series): the (timestamp, value) pairs.
DecodeCompactSeries(series) == DecodeFrom(series, 1, None, <<>>)

\* sorted(points, key=lambda item: item[0]) by insertion: the sort is
\* stable, a point goes behind the points of the same time already there.
RECURSIVE InsertByTime(_, _)
InsertByTime(sortedPoints, point) ==
    IF sortedPoints = <<>> THEN <<point>>
    ELSE IF Head(sortedPoints)[1] <= point[1]
         THEN <<Head(sortedPoints)>> \o InsertByTime(Tail(sortedPoints), point)
         ELSE <<point>> \o sortedPoints

RECURSIVE SortedByTime(_)
SortedByTime(points) ==
    IF points = <<>> THEN <<>>
    ELSE InsertByTime(SortedByTime(SubSeq(points, 1, Len(points) - 1)),
                      points[Len(points)])

\* The loop of _compact_series over the sorted points; previous is
\* previous_minutes (None before the first point).
RECURSIVE CompactFrom(_, _)
CompactFrom(sortedPoints, previous) ==
    IF sortedPoints = <<>> THEN <<>>
    ELSE LET minutes == (Head(sortedPoints)[1] - KeepaEpoch) \div 60
             value == Head(sortedPoints)[2]
         IN <<(IF previous = None THEN minutes ELSE minutes - previous[1]), value>>
            \o CompactFrom(Tail(sortedPoints), Some(minutes))

\* _compact_series(points): first the absolute minutes and the value, then
\* pairs of minutes since the point before and value.
CompactSeries(points) == CompactFrom(SortedByTime(points), None)

MaxPoints == 3
MaxSeries == 4

\* Lists of points at whole minutes, before, at and after the epoch, in any
\* order and with repeats, with positive, zero and negative values.
PointLists ==
    SeqUpTo({<<KeepaEpoch + 60 * minute, value>> :
                 minute \in {-2, 0, 1, 5}, value \in {-1, 0, 7, 9}}, MaxPoints)

\* Series as they may come in a payload: of odd length too, and with zero
\* and negative minute components.
SeriesLists == SeqUpTo({-1, 0, 2, 7}, MaxSeries)

InitSeries ==
    /\ InitRest
    /\ args \in [points : PointLists] \cup [series : SeriesLists]
    /\ ret = NoRet

\* The outcome of decoding series and encoding the points again.
DecodeAndEncode(series) ==
    LET decoded == DecodeCompactSeries(series)
    IN [series |-> series, decoded |-> decoded, reencoded |-> CompactSeries(decoded)]

\* _compact_series(points), then _decode_compact_series, then
\* _compact_series again.
ApplyRoundTrip ==
    /\ ret = NoRet
    /\ DOMAIN args = {"points"}
    /\ ret' = Some(DecodeAndEncode(CompactSeries(args.points)))
    /\ EvalFrame

\* _decode_compact_series(series) of a series as given, then _compact_series.
ApplyDecode ==
    /\ ret = NoRet
    /\ DOMAIN args = {"series"}
    /\ ret' = Some(DecodeAndEncode(args.series))
    /\ EvalFrame

NextSeries == ApplyRoundTrip \/ ApplyDecode

SeriesSpec == InitSeries /\ [][NextSeries]_vars

\* ---------------------------------------------- Keepa's window statistics
\* MIN_WINDOW_POINTS
MinWindowPoints == 2

\* timedelta(days=30), in seconds.
WindowSeconds == 2592000

\* _quantize_price(value): the price in hundredths; a Keepa value is a
\* whole number of hundredths, so a positive one is the price itself.
QuantizePrice(value) == IF value <= 0 THEN 0 ELSE value

\* sorted(values) of a list of numbers.
RECURSIVE SortedValues(_)
SortedValues(values) ==
    IF values = <<>> THEN <<>>
    ELSE LET rest == SortedValues(Tail(values))
             smaller == SelectSeq(rest, LAMBDA v : v < Head(values))
             others == SelectSeq(rest, LAMBDA v : v >= Head(values))
         IN smaller \o <<Head(values)>> \o others

\* _median_decimal(values), in hundredths.
MedianDecimal(values) ==
    IF values = <<>> THEN 0
    ELSE LET sorted_values == SortedValues(values)
             count == Len(sorted_values)
             mid == count \div 2
         IN IF count % 2 = 1 THEN sorted_values[mid + 1]
            ELSE RoundHalfUp(sorted_values[mid] + sorted_values[mid + 1], 2)

\* _percentile_decimal(values, percentile), the percentile in tenths:
\* linear interpolation between the neighbours of rank (n - 1) * percentile,
\* quantized half-up.
PercentileDecimal(values, tenths) ==
    IF values = <<>> THEN 0
    ELSE IF Len(values) = 1 THEN values[1]
    ELSE LET sorted_values == SortedValues(values)
             rank == (Len(sorted_values) - 1) * tenths
             lower_index == rank \div 10
             upper_index == IF lower_index + 1 < Len(sorted_values) - 1
                            THEN lower_index + 1 ELSE Len(sorted_values) - 1
             fraction == rank % 10
             lower_value == sorted_values[lower_index + 1]
             upper_value == sorted_values[upper_index + 1]
         IN RoundHalfUp(lower_value * 10 + (upper_value - lower_value) * fraction, 10)

\* _latest_price(points): the first positive value in descending order of
\* time (the sort is stable), None when there is none.
LatestPrice(points) ==
    LET positive == SelectSeq(points, LAMBDA point : point[2] > 0)
    IN IF positive = <<>> THEN None
       ELSE LET i == CHOOSE i \in DOMAIN positive :
                        /\ \A j \in DOMAIN positive : positive[j][1] <= positive[i][1]
                        /\ \A j \in 1..(i - 1) : positive[j][1] < positive[i][1]
            IN Some(QuantizePrice(positive[i][2]))

\* The values of a list of points, quantized.
Prices(points) == [i \in DOMAIN points |-> QuantizePrice(points[i][2])]

\* The statistics _build_price_summary computes from window_points.
WindowStatistics(window_points) ==
    [median |-> MedianDecimal(Prices(window_points)),
     p10 |-> PercentileDecimal(Prices(window_points), 1),
     p90 |-> PercentileDecimal(Prices(window_points), 9)]

\* Neither summary nor statistics: (None, degraded keepa_insufficient_data).
NoPriceSummary ==
    [summary |-> None,
     flags |-> ServiceFlags(TRUE, FALSE, FALSE, "keepa_insufficient_data")]

\* _build_price_summary for a csv map whose price series is `series`, at
\* the time tnow.
BuildPriceSummary(series, tnow) ==
    IF series = <<>> THEN NoPriceSummary
    ELSE LET points == DecodeCompactSeries(series)
             cutoff == tnow - WindowSeconds
             in_window == SelectSeq(points, LAMBDA point : point[1] >= cutoff /\ point[2] > 0)
             insufficient_window == Len(in_window) < MinWindowPoints
             window_points ==
                 IF in_window = <<>>
                 THEN SelectSeq(points, LAMBDA point : point[2] > 0)
                 ELSE in_window
         IN IF points = <<>> \/ window_points = <<>> THEN NoPriceSummary
            ELSE LET statistics == WindowStatistics(window_points)
                     latest == LatestPrice(points)
                     highest == SortedValues(Prices(window_points))[Len(window_points)]
                 IN [summary |->
                         Some([current |-> IF latest # None /\ latest[1] # 0
                                           THEN latest[1] ELSE highest,
                               median |-> statistics.median,
                               p10 |-> statistics.p10,
                               p90 |-> statistics.p90,
                               insufficient |-> insufficient_window]),
                     flags |->
                         ServiceFlags(insufficient_window, FALSE, FALSE,
                                      IF insufficient_window
                                      THEN "keepa_insufficient_data" ELSE "None")]

MaxHistory == 3

\* The time of the call: half a minute past a whole minute, so that the
\* cutoff falls between two whole minutes.
SummaryNow == KeepaEpoch + 60 * 50000 + 30

\* Price histories: points long before the cutoff, in the last whole minute
\* before it, in the first after it and a day before now, with Keepa's -1
\* for no price and prices in hundredths.
HistoryLists ==
    SeqUpTo({<<KeepaEpoch + 60 * minute, value>> :
                 minute \in {5000, 6800, 6801, 48560}, value \in {-1, 1000, 1105, 2000}},
            MaxHistory)

InitSummary ==
    /\ InitRest
    /\ args \in [series : {CompactSeries(points) : points \in HistoryLists},
                  now : {SummaryNow}]
    /\ ret = NoRet

\* price_summary, price_flags = _build_price_summary(csv_map)
ApplyBuildPriceSummary ==
    /\ ret = NoRet
    /\ ret' = Some(BuildPriceSummary(args.series, args.now))
    /\ EvalFrame

SummarySpec == InitSummary /\ [][ApplyBuildPriceSummary]_vars

\* ------------------------------------------------------------- the notifier
MaxNotifyAttempts == 3

\* The three ways a notification is posted.
NotifyPaths == {"line", "slack_api", "slack_webhook"}

\* The post did not get a response: httpx.RequestError, or the Slack
\* client's SlackClientError without a response.
TransportError == 0

\* What one post can end in: a transport error or a response status.
NotifyOutcomes == {TransportError, 200, 404, 429, 503}

\* status_code in (429,) or status_code >= 500
TransientStatus(status) == status = 429 \/ status >= 500

\* What is raised inside the `with attempt:` block of a path for one
\* outcome of the post: nothing ("none"), _RetryableNotificationError,
\* NotificationError, or the client library's own error.
RaisedInAttempt(path, o) ==
    IF path = "line"
    THEN IF o = TransportError THEN "_RetryableNotificationError"
         ELSE IF TransientStatus(o) THEN "_RetryableNotificationError"
         ELSE IF o >= 400 THEN "NotificationError"
         ELSE "none"
    ELSE IF path = "slack_webhook"
    THEN IF o = TransportError THEN "RequestError"
         ELSE IF TransientStatus(o) THEN "_RetryableNotificationError"
         ELSE IF o >= 400 THEN "NotificationError"
         ELSE "none"
    ELSE IF o = TransportError THEN "SlackClientError"
         ELSE IF o >= 400 THEN "SlackApiError"
         ELSE "none"

\* What the except clauses around the retry loop make of an error that
\* left the loop after the post ended in o.
RaisedByHandler(path, error, o) ==
    IF path = "slack_api" /\ error = "SlackApiError"
    THEN IF TransientStatus(o) THEN "_RetryableNotificationError" ELSE "NotificationError"
    ELSE IF path = "slack_api" /\ error = "SlackClientError" THEN "_RetryableNotificationError"
    ELSE IF path = "slack_webhook" /\ error = "RequestError" THEN "_RetryableNotificationError"
    ELSE error

\* stop_after_attempt(max(max_attempts, 1)), attempts counted from 1.
NotifierStop(max_attempts, n) == n >= (IF max_attempts > 1 THEN max_attempts ELSE 1)

\* The retry loop of a path from attempt n on: Retrying retries
\* _RetryableNotificationError only and re-raises the last error (reraise).
RECURSIVE PostFrom(_, _, _, _)
PostFrom(path, max_attempts, outs, n) ==
    LET error == RaisedInAttempt(path, outs[n])
    IN IF error = "none" THEN [requests |-> n, outcome |-> "delivered"]
       ELSE IF error = "_RetryableNotificationError" /\ ~NotifierStop(max_attempts, n)
       THEN PostFrom(path, max_attempts, outs, n + 1)
       ELSE [requests |-> n, outcome |-> RaisedByHandler(path, error, outs[n])]

\* post_line / _send_slack_message / _send_slack_webhook
Post(path, max_attempts, outs) == PostFrom(path, max_attempts, outs, 1)

InitNotify ==
    /\ InitRest
    /\ args \in [path : NotifyPaths, max_attempts : 1..MaxNotifyAttempts,
                  outcomes : [1..MaxNotifyAttempts -> NotifyOutcomes]]
    /\ ret = NoRet

ApplyPost ==
    /\ ret = NoRet
    /\ ret' = Some(Post(args.path, args.max_attempts, args.outcomes))
    /\ EvalFrame

NotifySpec == InitNotify /\ [][ApplyPost]_vars

\* -------------------------------- run(): notifications and the spreadsheet
\* What a call of a channel or of the spreadsheet collaborator ends in.
CollaboratorOutcomes == {"ok", "error"}

\* The end of run(), from the decision on: the decision, the run's
\* dry_run/notify_slack/notify_line, whether the agent has a spreadsheet
\* service, and how each collaborator's call ends if it is made.
DispatchArgs ==
    [meets_thresholds : BOOLEAN, dry_run : BOOLEAN,
     notify_slack : BOOLEAN, notify_line : BOOLEAN, sheets_service : BOOLEAN,
     slack : CollaboratorOutcomes, line : CollaboratorOutcomes,
     sheets : CollaboratorOutcomes]

\* Mutant: the first NotificationError ends the dispatch.
DispatchNotificationsStopAtError(a) ==
    IF a.notify_slack /\ a.slack = "error"
    THEN [posts |-> <<"slack">>, errors |-> <<"slack">>]
    ELSE [posts |-> (IF a.notify_slack THEN <<"slack">> ELSE <<>>)
                    \o (IF a.notify_line THEN <<"line">> ELSE <<>>),
          errors |-> IF a.notify_line /\ a.line = "error" THEN <<"line">> ELSE <<>>]

\* run(), line 191: the document built before anything is dispatched; of
\* its contents the decision is kept.
ResultDocument(a) == [decision |-> [buy |-> a.meets_thresholds]]

\* _dispatch_notifications: the channels posted to, in order, and the
\* errors collected (NotificationError is caught per channel).
DispatchNotifications(a) ==
    LET slackPart == IF a.notify_slack THEN <<"slack">> ELSE <<>>
        linePart == IF a.notify_line THEN <<"line">> ELSE <<>>
    IN [posts |-> slackPart \o linePart,
        errors |-> (IF a.notify_slack /\ a.slack = "error" THEN <<"slack">> ELSE <<>>)
                   \o (IF a.notify_line /\ a.line = "error" THEN <<"line">> ELSE <<>>)]

\* Mutant: dry_run is not looked at.
DispatchIgnoringDryRun(a) ==
    LET notified == IF a.meets_thresholds /\ (a.notify_slack \/ a.notify_line)
                    THEN DispatchNotifications(a)
                    ELSE [posts |-> <<>>, errors |-> <<>>]
    IN [posts |-> notified.posts,
        errors |-> notified.errors,
        appended |-> a.meets_thresholds /\ a.sheets_service,
        result |-> ResultDocument(a),
        raised |-> NoError]

\* run(), lines 191 to 227: the channels posted to, whether append_listing
\* was called (a GoogleSheetsError is caught), the document returned and
\* the error run() raises (none: the collaborators' errors are caught).
Dispatch(a) ==
    LET notified == IF /\ a.meets_thresholds /\ ~a.dry_run
                       /\ (a.notify_slack \/ a.notify_line)
                    THEN DispatchNotifications(a)
                    ELSE [posts |-> <<>>, errors |-> <<>>]
    IN [posts |-> notified.posts,
        errors |-> notified.errors,
        appended |-> a.meets_thresholds /\ ~a.dry_run /\ a.sheets_service,
        result |-> ResultDocument(a),
        raised |-> NoError]

InitDispatch == InitRest /\ args \in DispatchArgs /\ ret = NoRet

ApplyDispatch ==
    /\ ret = NoRet
    /\ ret' = Some(Dispatch(args))
    /\ EvalFrame

DispatchSpec == InitDispatch /\ [][ApplyDispatch]_vars

\* ------------------------------------------------------------------ C21
\* C21: the selling price is the target price if one is given and above 0;
\* else the least landed price of the offers if there is an offer; else
\* the Keepa current price if above 0; else 0.
C21_SellingPriceFirstMatch ==
    ret # NoRet
        => LET price == ret[1]
               hasTarget == args.target # None /\ args.target[1] > 0
               hasOffers == Len(args.offers) > 0
               current == args.snapshot.current_price
           IN /\ hasTarget => price = args.target[1]
              /\ (~hasTarget /\ hasOffers)
                    => /\ \E i \in 1..Len(args.offers) : price = args.offers[i]
                       /\ \A i \in 1..Len(args.offers) : price <= args.offers[i]
              /\ (~hasTarget /\ ~hasOffers /\ current > 0) => price = current
              /\ (~hasTarget /\ ~hasOffers /\ current <= 0) => price = 0

\* A target price and offers were both given; the target price was taken,
\* though an offer is cheaper.
C21_Witness ==
    /\ ret # NoRet
    /\ args.target = Some(11)
    /\ args.offers = <<12, 9>>
    /\ ret[1] = 11
\* ------------------------------------------------------------------ C22
\* C22: a notification is posted or a row appended only in a run with
\* meets_thresholds true and dry_run false; a run with dry_run = true or
\* with no buy decision posts nothing and appends nothing.
C22_SideEffectsOnlyOnBuyAndNotDryRun ==
    ret # NoRet
        => /\ (ret[1].posts # <<>> \/ ret[1].appended)
                => (args.meets_thresholds /\ ~args.dry_run)
           /\ (args.dry_run \/ ~args.meets_thresholds)
                => (ret[1].posts = <<>> /\ ~ret[1].appended)

\* A buy decision without dry_run posted to both channels and appended a
\* row.
C22_Witness ==
    /\ ret # NoRet
    /\ args.meets_thresholds /\ ~args.dry_run
    /\ ret[1].posts = <<"slack", "line">>
    /\ ret[1].appended
\* ------------------------------------------------------------------ C23
\* The absolute value.
Abs(x) == IF x < 0 THEN 0 - x ELSE x

FeeComponents ==
    {"referral_fee", "closing_fee", "fba_fee", "inbound_shipping",
     "packaging_materials", "storage_fee", "taxes", "fx_spread", "returns_cost",
     "other_costs"}

\* The sum of the ten components of f, each taken through conv.
SumOfTen(f, conv(_)) ==
    conv(f.referral_fee) + conv(f.closing_fee) + conv(f.fba_fee)
    + conv(f.inbound_shipping) + conv(f.packaging_materials) + conv(f.storage_fee)
    + conv(f.taxes) + conv(f.fx_spread) + conv(f.returns_cost) + conv(f.other_costs)

IsHalfUpRatio(r, num, den) ==
    LET err == Abs(r * den - num * RatioScale)
    IN /\ 2 * err <= Abs(den)
       /\ 2 * err = Abs(den) => Abs(r * den) > Abs(num * RatioScale)

\* C25: calculate_profit returns roi = 0 when purchase_cost is 0 and
\* margin = 0 when selling_price is 0; a ratio with a non-zero denominator
\* is the profit (selling price less purchase cost less the fee total,
\* before quantization) over that denominator, rounded half-up to 0.0001.
C25_SafeDivide ==
    ret # NoRet
        => LET profit == args.selling_price - args.purchase_cost - FeeTotal(args.fees)
           IN /\ IF args.purchase_cost = 0 THEN ret[1].roi = 0
                 ELSE IsHalfUpRatio(ret[1].roi, profit, args.purchase_cost)
              /\ IF args.selling_price = 0 THEN ret[1].margin = 0
                 ELSE IsHalfUpRatio(ret[1].margin, profit, args.selling_price)

\* calculate_profit has returned for a zero purchase cost with a non-zero
\* profit: roi is 0 and the margin is computed.
C25_Witness ==
    /\ ret # NoRet
    /\ args.purchase_cost = 0
    /\ args.selling_price = 100
    /\ FeeTotal(args.fees) = 20
    /\ ret[1].roi = 0
    /\ ret[1].margin = 8000
\* ------------------------------------------------------------------ C26
\* C26: constructing a ProductQuery succeeds exactly when one of asin and
\* barcode is non-empty and the other is empty or absent; it fails when
\* neither is given and when both are given.
C26_ExactlyOneIdentifier ==
    (ret # NoRet /\ ret[1].op = "ProductQuery")
        => (ret[1].kind = "return" <=> (Truthy(args.asin) # Truthy(args.barcode)))
\* ------------------------------------------------------------------ C27
\* The pairs of a list of points whose value is positive.
PositivePairs(points) == {point \in Elements(points) : point[2] > 0}

\* The sum of the first k minute components of a series.
RECURSIVE MinutesSum(_, _)
MinutesSum(series, k) ==
    IF k = 0 THEN 0 ELSE MinutesSum(series, k - 1) + series[2 * k - 1]

\* C27: for a list of points at whole minutes, the encoded series decodes
\* to the same set of (timestamp, value) pairs, non-positive values left
\* aside, and encoding the decoded points again gives pairs that decode to
\* that set too; the k-th decoded timestamp of any series is the Keepa
\* epoch plus the sum of its first k minute components.
C27_CompactSeriesRoundTrip ==
    ret # NoRet
        => LET r == ret[1]
           IN /\ DOMAIN args = {"points"}
                    => /\ PositivePairs(r.decoded) = PositivePairs(args.points)
                       /\ r.reencoded = r.series
              /\ PositivePairs(DecodeCompactSeries(r.reencoded)) = PositivePairs(r.decoded)
              /\ Len(r.decoded) = Len(r.series) \div 2
              /\ \A k \in 1..Len(r.decoded) :
                    /\ r.decoded[k][1] = KeepaEpoch + 60 * MinutesSum(r.series, k)
                    /\ r.decoded[k][2] = r.series[2 * k]

\* Three points given out of time order, one of them with a non-positive
\* value, have gone through the round trip.
C27_Witness ==
    /\ ret # NoRet
    /\ DOMAIN args = {"points"}
    /\ args.points = <<<<KeepaEpoch + 300, 7>>, <<KeepaEpoch - 120, 0>>, <<KeepaEpoch + 60, 9>>>>
    /\ ret[1].series = <<-2, 0, 3, 9, 4, 7>>
    /\ Len(ret[1].decoded) = 3
\* ------------------------------------------------------------------ C28
\* The positive points of the series given to _build_price_summary.
PositivePoints == SelectSeq(DecodeCompactSeries(args.series), LAMBDA point : point[2] > 0)

\* Those of them in the 30-day window.
PointsInWindow ==
    SelectSeq(PositivePoints, LAMBDA point : point[1] >= args.now - WindowSeconds)

\* The median, p10 and p90 of a returned summary.
StatisticsOf(summary) == [median |-> summary.median, p10 |-> summary.p10, p90 |-> summary.p90]

\* C28: with fewer than 2 positive points in the 30-day window the median,
\* p10 and p90 are those of all positive points of the series and the flags
\* are degraded with reason keepa_insufficient_data; with 2 or more the
\* statistics are those of the window points and the flags are not degraded.
C28_WindowFallback ==
    ret # NoRet
        => IF Len(PointsInWindow) < 2
           THEN /\ ret[1].flags.degraded
                /\ ret[1].flags.reason = "keepa_insufficient_data"
                /\ IF PositivePoints = <<>> THEN ret[1].summary = None
                   ELSE /\ ret[1].summary # None
                        /\ StatisticsOf(ret[1].summary[1]) = WindowStatistics(PositivePoints)
           ELSE /\ ~ret[1].flags.degraded
                /\ ret[1].summary # None
                /\ StatisticsOf(ret[1].summary[1]) = WindowStatistics(PointsInWindow)
\* ------------------------------------------------------------------ C29
\* The three booleans of ServiceFlags.
FlagNames == {"degraded", "cached", "circuit_open"}

\* The top-level flags of a returned document are the OR of the flags of
\* its three sources.
TopLevelFlagsAreOr ==
    Returned
        => \A f \in FlagNames :
              doc[1].flags[f]
                  <=> \/ doc[1].sources.keepa[f]
                      \/ doc[1].sources.competitive[f]
                      \/ doc[1].sources.fees[f]

\* While a run is between its fetch steps, a step leaves every flag that
\* is set in flags_state set.
FlagsNeverCleared ==
    ppc \in {"pricing", "fees", "decide"}
        => \A f \in FlagNames : flags_state[f] => flags_state'[f]

\* C29: in every result document degraded, cached and circuit_open are
\* each true iff the keepa, the competitive or the fees result had it set,
\* and during a run a flag once set is not cleared by a later source.
C29_FlagsAreOrMerged == []TopLevelFlagsAreOr /\ [][FlagsNeverCleared]_vars

\* A document whose first source alone was cached and not degraded, and
\* whose last source was degraded: both flags are set at the top level.
C29_Witness ==
    /\ Returned
    /\ doc[1].sources.keepa.cached
    /\ ~doc[1].sources.competitive.cached
    /\ ~doc[1].sources.fees.cached
    /\ doc[1].flags.cached
    /\ ~doc[1].sources.keepa.degraded
    /\ doc[1].sources.fees.degraded
    /\ doc[1].flags.degraded
\* ------------------------------------------------------------------ C30
\* The errors that are NotificationError.
NotificationErrors == {"NotificationError", "_RetryableNotificationError"}

\* C30: on each path a post that ended in 429 or a status >= 500 is
\* attempted again while fewer than max_attempts attempts were made, a post
\* that ended in another status >= 400 ends the call at once with
\* NotificationError, and 429 followed by 200 is 2 requests and a delivery.
C30_NotifierRetries ==
    ret # NoRet
        => LET made == ret[1].requests
               outs == args.outcomes
           IN /\ made \in 1..args.max_attempts
              /\ TransientStatus(outs[made])
                    => (made = args.max_attempts /\ ret[1].outcome \in NotificationErrors)
              /\ (outs[made] >= 400 /\ ~TransientStatus(outs[made]))
                    => ret[1].outcome \in NotificationErrors
              /\ \A j \in 1..(made - 1) :
                    outs[j] = TransportError \/ TransientStatus(outs[j])
              /\ (args.max_attempts >= 2 /\ outs[1] = 429 /\ outs[2] = 200)
                    => (made = 2 /\ ret[1].outcome = "delivered")
\* ------------------------------------------------------------------ C31
\* The same run with both channels delivering.
WithChannelsDelivering == Dispatch([args EXCEPT !.slack = "ok", !.line = "ok"])

\* C31: whichever channel fails with NotificationError, run() raises
\* nothing, returns the document it returns when both channels deliver,
\* and posts to the same channels (the other channel is still attempted)
\* and appends the same row.
C31_NotificationFailureIsContained ==
    ret # NoRet
        => /\ ret[1].raised = NoError
           /\ ret[1].result = WithChannelsDelivering.result
           /\ ret[1].posts = WithChannelsDelivering.posts
           /\ ret[1].appended = WithChannelsDelivering.appended

\* Slack failed, LINE was posted after it, and the buy document is returned.
C31_Witness ==
    /\ ret # NoRet
    /\ args.slack = "error" /\ args.line = "ok"
    /\ ret[1].errors = <<"slack">>
    /\ ret[1].posts = <<"slack", "line">>
    /\ ret[1].result.decision.buy
    /\ ret[1].raised = NoError
\* ------------------------------------------------------------------ C32
\* The count of a key stays within the limit.
CountsWithinLimit == \A k \in Keys : counts[k] <= BudgetLimit

\* A step never lowers the count of a key.
CountsNeverDecrease == \A k \in Keys : counts'[k] >= counts[k]

\* A send starts only from a unit consumed for it: the thread's consume()
\* of this attempt returned, and that consume() raised the key's count by 1.
SendUsesConsumedUnit ==
    \A t \in Threads :
        /\ (pc'[t] = "send" /\ pc[t] # "send")
              => (pc[t] = "acquire" /\ LastEvent(t) = "consume")
        /\ (pc'[t] = "acquire" /\ pc[t] # "acquire")
              => counts'[KeyOf(t)] = counts[KeyOf(t)] + 1

\* With the limit reached, the attempt a call comes to ends the call with
\* the budget_exceeded result and without a send.
ExhaustedBudgetEndsCall ==
    \A t \in Threads :
        (/\ pc[t] \in {"attempt", "backoff"}
         /\ counts[KeyOf(t)] = BudgetLimit
         /\ pc'[t] # pc[t])
            => /\ pc'[t] = "done"
               /\ result'[t] = BudgetExceededResult
               /\ Count(trace'[t], "send") = Count(trace[t], "send")
               /\ counts' = counts

\* C32: the count of a key never decreases and never passes the limit,
\* every HTTP send uses one consumed unit of its key (so the sends of a key
\* are at most its limit, over retries and concurrent calls), and once the
\* limit is reached every call that comes to an attempt returns
\* budget_exceeded without a send.
C32_BudgetIsHardCeiling ==
    /\ []CountsWithinLimit
    /\ [][CountsNeverDecrease /\ SendUsesConsumedUnit /\ ExhaustedBudgetEndsCall]_vars

\* The limit of a key is reached and a call begun afterwards has ended
\* budget_exceeded at its first attempt, without any send.
C32_Witness ==
    \E t \in Threads :
        /\ pc[t] = "done"
        /\ counts[KeyOf(t)] = BudgetLimit
        /\ result[t] = BudgetExceededResult
        /\ trace[t] = <<"allow", "budget_exceeded">>
\* ------------------------------------------------------------------ C33
\* Every breaker is open exactly when its failure count has reached the
\* threshold.
OpenIffThresholdReached ==
    \A c \in Clients :
        breaker[c].opened_at # NoTime <=> breaker[c].failures >= FailureThreshold

\* A step in which a call records a success, or in which allow() finds the
\* cooldown over, leaves the call's breaker closed with no failures.
SuccessAndResetClose ==
    \A t \in Threads :
        (/\ trace'[t] # trace[t]
         /\ trace'[t] # NoTrace
         /\ \/ trace'[t][Len(trace'[t])] = "record_success"
            \/ trace'[t][1] = "allow_reset" /\ trace[t] = NoTrace)
            => breaker'[client'[t]] = ClosedBreaker

\* C33: after any interleaving of allow, record_success and record_failure
\* a breaker is open iff its failures are at least failure_threshold;
\* record_success and an allow after the cooldown leave failures = 0 and
\* the breaker closed.
C33_OpenIffFailuresAtThreshold ==
    []OpenIffThresholdReached /\ [][SuccessAndResetClose]_vars

\* A failure was recorded on a breaker that was already open: it is open
\* with more failures than the threshold.
C33_Witness ==
    \E c \in Clients :
        /\ breaker[c].opened_at # NoTime
        /\ breaker[c].failures > FailureThreshold
\* ------------------------------------------------------------------ C34
\* The five ways a transport call ends.
FiveOutcomes(c) ==
    {SuccessResult, CircuitOpenResult, BudgetExceededResult, RetryExhaustedResult,
     Raised(TypedError(c)), Raised("TokenAcquisitionError")}

\* A finished call has exactly one of the outcomes, and no call is past
\* attempt max_attempts.
EndsInOneOutcome ==
    \A t \in Threads :
        /\ attempt[t] <= MaxAttempts
        /\ Count(trace[t], "send") <= MaxAttempts
        /\ pc[t] = "done" => result[t] \in FiveOutcomes(client[t])
        /\ pc[t] \notin {"idle", "done"} => result[t] = NoResult

\* C34: every transport call that was begun ends, given that each HTTP
\* attempt ends, in a success, circuit_open, budget_exceeded or
\* retry_exhausted result or a raised typed error, after at most
\* max_attempts iterations of the retry loop.
C34_EveryCallTerminates ==
    /\ []EndsInOneOutcome
    /\ \A t \in Threads : (pc[t] # "idle") ~> (pc[t] = "done")

\* A call has ended at the last attempt the retry loop allows, while the
\* other thread's call was still in progress.
C34_Witness ==
    \E t, u \in Threads :
        /\ pc[t] = "done"
        /\ attempt[t] = MaxAttempts
        /\ Count(trace[t], "send") = MaxAttempts
        /\ result[t] = RetryExhaustedResult
        /\ pc[u] \in {"acquire", "send", "handle"}
\* ------------------------------------------------------------------ C35
\* A get_price_snapshot call that handed back no snapshot: an error raised
\* or a result without data (circuit_open, budget_exceeded,
\* retry_exhausted).
NoSnapshot(out) == out.kind = "raise" \/ (out.kind = "return" /\ out.data = None)

\* An entry is put in the cache only by a call for its key that missed,
\* sent a request and hands the stored snapshot back.
StoredOnlyWithProduct ==
    \A k \in DOMAIN snapshot_cache :
        (snapshot_cache'[k] # snapshot_cache[k] /\ snapshot_cache'[k] # None)
            => /\ snapshot_cache[k] = None
               /\ snapKey' = k
               /\ snap'.kind = "return"
               /\ snap'.data = snapshot_cache'[k]
               /\ ~snap'.flags.cached
               /\ httpRequests'[BudgetKey("keepa")] > httpRequests[BudgetKey("keepa")]

\* A call that hands back no snapshot leaves the cache as it was, with no
\* entry for its key.
FailureNotStored ==
    (snapCalls' = snapCalls + 1 /\ NoSnapshot(snap'))
        => /\ UNCHANGED snapshot_cache
           /\ snapshot_cache'[snapKey'] = None

\* The call for the same key after one that handed back no snapshot is
\* not answered from the cache.
NextCallMisses ==
    (snapCalls' = snapCalls + 1 /\ snapKey' = snapKey /\ NoSnapshot(snap))
        => (snap'.kind = "return" => ~snap'.flags.cached)

\* C35: the price-history cache is written only at the end of a
\* get_price_snapshot call whose response carried a product; a call ending
\* in circuit_open, budget_exceeded, retry_exhausted or KeepaAPIError
\* leaves the cache unchanged, and the next call for the key goes to the
\* transport again.
C35_CacheHoldsOnlyFetchedSnapshots ==
    [][StoredOnlyWithProduct /\ FailureNotStored /\ NextCallMisses]_vars

\* A call for a key failed with KeepaAPIError after a call for the same
\* key had exhausted its retries, while the other key has an entry.
C35_Witness ==
    /\ snapCalls >= 3
    /\ snap = OpRaise("KeepaAPIError")
    /\ snapshot_cache[snapKey] = None
    /\ \E k \in DOMAIN snapshot_cache : snapshot_cache[k] # None
    /\ httpRequests[BudgetKey("keepa")] >= 3

\* ------------------------------------------------------------------ C36
\* ServiceFlags(cached=True)
HitFlags == ServiceFlags(FALSE, TRUE, FALSE, "None")

\* C36: a cache hit hands back cached = true, degraded = false,
\* circuit_open = false and no reason, whatever the fetch that stored the
\* snapshot had flagged; the price-history step of a run answered from the
\* cache leaves the run's flags not degraded and without a reason.
C36_CacheHitIsNeverDegraded ==
    [][(runs' = runs + 1 /\ snapshot_cache[snapKey'] # None)
         => /\ snap' = OpReturn(snapshot_cache[snapKey'], HitFlags)
            /\ (ppc' = "pricing" /\ keepa_flags' = HitFlags)
            /\ keepa_snapshot' = snapshot_cache[snapKey'][1]
            /\ ~flags_state'.degraded
            /\ flags_state'.cached
            /\ flags_state'.reasons = <<>>]_vars

\* A run was answered from the cache with a snapshot without a rank, which
\* the storing fetch had flagged keepa_rank_insufficient, and its document
\* carries no degraded_inputs.
C36_Witness ==
    /\ doc # NoDoc
    /\ keepa_flags = HitFlags
    /\ keepa_snapshot.sales_rank = NoRank
    /\ ~doc[1].flags.degraded
    /\ \A i \in DOMAIN doc[1].decision.reasons :
           doc[1].decision.reasons[i] # "degraded_inputs"
\* ------------------------------------------------------------------ C37
\* A step in which a get_access_token call raises TokenAcquisitionError
\* leaves the cached token and its expiry as they were.
FailedRefreshKeepsCache ==
    \A t \in Threads :
        (returned'[t] = TokenAcquisitionError /\ returned[t] # TokenAcquisitionError)
            => /\ UNCHANGED <<cached_token, expires_at>>
               /\ apc[t] = "post"
               /\ token_data[t] = NoTokenData

\* The two fields are written only from a token response: by a thread
\* that holds one, with the token and the lifetime it carries.
StoredOnlyFromTokenResponse ==
    /\ cached_token' # cached_token
         => \E t \in Threads :
               /\ apc[t] = "store_token"
               /\ token_data[t] # NoTokenData
               /\ cached_token' = token_data[t].access_token
               /\ cached_token'.id \in 1..posts
    /\ expires_at' # expires_at
         => \E t \in Threads :
               /\ apc[t] = "store_expiry"
               /\ token_data[t] # NoTokenData
               /\ expires_at' = anow[t] + token_data[t].expires_in

\* A call is answered from the cache only when the cache holds a token
\* that its test finds unexpired; otherwise the call goes on to the POST.
StaleCacheIsRefreshed ==
    \A t \in Threads :
        /\ (apc[t] = "read_token" /\ apc'[t] # "read_token")
              => IF cached_token = NoToken THEN apc'[t] = "post"
                 ELSE apc'[t] = "read_expiry"
        /\ (apc[t] = "read_expiry" /\ apc'[t] # "read_expiry")
              => IF Unexpired(expires_at, anow[t]) THEN apc'[t] = "return_cached"
                 ELSE apc'[t] = "post" /\ authAttempt'[t] = 1

\* A thread whose call raised TokenAcquisitionError holds no token data.
FailedCallHoldsNoToken ==
    \A t \in Threads :
        returned[t] = TokenAcquisitionError
            => apc[t] = "done" /\ token_data[t] = NoTokenData

\* C37: a token refresh that fails (retries exhausted, a non-retryable
\* status >= 400, a body that is no JSON) raises TokenAcquisitionError and
\* leaves the cached token and its expiry unchanged; nothing but a token
\* response is ever stored, and a call that finds no unexpired token makes
\* the refresh again.
C37_FailedRefreshLeavesCache ==
    /\ []FailedCallHoldsNoToken
    /\ [][FailedRefreshKeepsCache /\ StoredOnlyFromTokenResponse
            /\ StaleCacheIsRefreshed]_vars

\* A refresh failed while the cache held an earlier token, and the cache
\* still holds that token with its expiry.
C37_Witness ==
    \E t \in Threads :
        /\ returned[t] = TokenAcquisitionError
        /\ cached_token # NoToken
        /\ expires_at = cached_token.expiry
        /\ posts >= 2
        /\ cached_token.id < posts
\* ------------------------------------------------------------------ C38
\* A failure recorded on an open breaker sets opened_at to the present
\* time.
LateFailureReopens ==
    \A c \in Clients :
        (breaker[c].opened_at # NoTime /\ breaker'[c].failures > breaker[c].failures)
            => breaker'[c].opened_at = now

\* A breaker on which a failure was recorded after it had opened stays
\* open as long as cooldown has not elapsed since that record.
StaysOpenSinceLatestFailure ==
    \A c \in Clients :
        (/\ breaker[c].opened_at # NoTime
         /\ breaker[c].failures > FailureThreshold
         /\ now' - breaker[c].opened_at < Cooldown)
            => /\ breaker'[c].opened_at # NoTime
               /\ breaker'[c].opened_at >= breaker[c].opened_at

\* C38: with concurrent calls, a call admitted before the breaker opened
\* that records its failure after it opened sets the open time again to
\* the present time, and the breaker stays open until cooldown has elapsed
\* since the latest recorded failure.
C38_LateFailureRestartsCooldown ==
    [][LateFailureReopens /\ StaysOpenSinceLatestFailure]_vars
\* ------------------------------------------------------------------ C39
\* Whatever the state of the primitives, a price-history call whose
\* response has a success status and whose payload carries an error or no
\* products has made record_success (failures 0, breaker closed) and then
\* raises KeepaAPIError, with nothing to store.
ApplicationErrorCountsAsSuccess ==
    \A req \in Requests("keepa") :
        req.result = SuccessResult
            => /\ req.record = "success"
               /\ req.breaker = ClosedBreaker
               /\ \A p \in KeepaPayloads :
                     (p.error \/ p.products = 0)
                         => GetPriceSnapshot(None, req, p)
                              = [out |-> OpRaise("KeepaAPIError"), store |-> FALSE]

\* A run whose price-history step raised KeepaAPIError goes on with the
\* default snapshot, degraded with the reason keepa_error, and the cache
\* is left as it was.
KeepaErrorIsReported ==
    (runs' = runs + 1 /\ snap' = OpRaise("KeepaAPIError"))
        => /\ ppc' = "pricing"
           /\ keepa_flags' = KeepaErrorFlags
           /\ keepa_snapshot' = DefaultKeepaSnapshot
           /\ flags_state'.degraded
           /\ flags_state'.reasons = <<"keepa_error">>
           /\ UNCHANGED snapshot_cache
           /\ snapshot_cache[snapKey'] = None

\* C39: a price-history response with a success status whose payload
\* carries an error or no products is counted as a success by the breaker
\* before KeepaAPIError is raised; the pipeline reports it as degraded
\* with the reason keepa_error and caches nothing, and such errors never
\* open the breaker.
C39_ApplicationErrorsNeverOpenBreaker ==
    /\ []ApplicationErrorCountsAsSuccess
    /\ [][KeepaErrorIsReported]_vars

\* The price-history step of a second run has raised KeepaAPIError on a
\* response with a success status: requests were sent and the breaker is
\* closed with no failure counted.
C39_Witness ==
    /\ runs >= 2
    /\ ppc = "pricing"
    /\ snap = OpRaise("KeepaAPIError")
    /\ keepa_flags = KeepaErrorFlags
    /\ breaker["keepa"] = ClosedBreaker
    /\ httpRequests[BudgetKey("keepa")] >= 2
    /\ snapshot_cache[snapKey] = None
\* ------------------------------------------------------------------ C40
\* The call of thread t ends in this step with TokenAcquisitionError.
TokenErrorStep(t) ==
    /\ result'[t] = Raised("TokenAcquisitionError")
    /\ result[t] # Raised("TokenAcquisitionError")

\* The token provider raises only in the step that begins a call of the
\* marketplace client, after allow() has admitted it: the breaker is as
\* allow() left it (no record), and no budget unit, permit or send was
\* used.
TokenErrorEndsCallUntouched ==
    \A t \in Threads :
        TokenErrorStep(t)
            => /\ pc[t] = "idle" /\ pc'[t] = "done"
               /\ client'[t] = "spapi"
               /\ Allow(breaker["spapi"], now).ok
               /\ breaker' = [breaker EXCEPT !["spapi"] = Allow(@, now).b]
               /\ breaker'["spapi"].failures = breaker["spapi"].failures
                    \/ breaker'["spapi"] = ClosedBreaker
               /\ trace'[t] \in {<<"allow", "token_error">>,
                                 <<"allow_reset", "token_error">>}
               /\ attempt'[t] = 0
               /\ UNCHANGED <<counts, semaphores, consumeCalls, consumeOk>>

\* The token is asked for once, before the first attempt: a call that has
\* come to an attempt never ends with the provider's error, and a call
\* that ended with it has made no attempt.
TokenAskedOncePerCall ==
    \A t \in Threads :
        /\ Has(t, "token_error")
              => /\ Len(trace[t]) = 2
                 /\ pc[t] = "done"
                 /\ result[t] = Raised("TokenAcquisitionError")
                 /\ attempt[t] = 0
        /\ attempt[t] >= 1
              => /\ ~Has(t, "token_error")
                 /\ result[t] # Raised("TokenAcquisitionError")
        /\ result[t] = Raised("TokenAcquisitionError") => Has(t, "token_error")

\* C40: in the marketplace client the access token is obtained once per
\* call, after allow() has admitted the call and before the first
\* attempt; when the provider raises TokenAcquisitionError the call ends
\* with that error with no budget consumed, no permit acquired, no send
\* made and no failure or success recorded on the breaker, and the retry
\* attempts never ask for a token again.
C40_TokenOncePerCallBeforeAttempts ==
    /\ []TokenAskedOncePerCall
    /\ [][TokenErrorEndsCallUntouched]_vars

\* A marketplace call ended with the token provider's error while the
\* breaker counted a failure, the budget had units consumed and the other
\* thread was in its second attempt.
C40_Witness ==
    \E t, u \in Threads :
        /\ result[t] = Raised("TokenAcquisitionError")
        /\ trace[t] = <<"allow", "token_error">>
        /\ breaker["spapi"].failures >= 1
        /\ counts[BudgetKey("spapi")] >= 1
        /\ client[u] = "spapi"
        /\ attempt[u] >= 2
        /\ pc[u] \notin {"idle", "done"}
====
